---------------------------- MODULE Spec2Model ----------------------------
(***************************************************************************)
(* Model of the concurrent workload engine of oracle_test_lib.py:          *)
(*   - OracleTestClient.test_concurrent_operations and its worker threads, *)
(*     run_write_test / run_read_test / run_mixed_test, stop();            *)
(*   - OracleTestConnection.connect / disconnect;                          *)
(*   - TestMetrics (duration_ms, throughput_mbps) and TestResults          *)
(*     (add_metric, get_summary).                                          *)
(*                                                                         *)
(* Python floats are modelled as exact rationals <<num, den>> (den > 0,    *)
(* lowest terms); times are whole seconds, so duration_ms is an integer.   *)
(* Strings that the code inspects (operation_type) are sequences of        *)
(* one-character strings, so that lower() and the substring test are       *)
(* computed, not assumed.                                                  *)
(***************************************************************************)
EXTENDS Integers, Sequences, FiniteSets, TLC

(***************************************************************************)
(* Bounds of the model.                                                    *)
(***************************************************************************)
\* largest concurrent_connections drawn for a profile
MaxConn == 2
\* largest operations_per_second drawn for a profile
MaxOpsPerSec == 2
\* largest operations_per_second x duration_seconds drawn for a profile
MaxTotalOps == 3
\* the wall clock of a run advances from 0 up to MaxTime
MaxTime == 1
\* the data_size_kb of every drawn profile
DataSizeKb == 1
\* the non-zero think_time_ms a profile may carry
ThinkMs == 500
\* TestResults of the aggregator specification hold at most MaxRecords records
MaxRecords == 3

\* at most MaxThreads threads call add_metric on one shared TestResults
MaxThreads == 2
\* a thread calls init_thick_mode() or connect() at most MaxCalls times
MaxCalls == 2

\* Python's None
None == "None"

\* None where a mapping is expected
NoSummary == <<>>

\* no get_summary() call in progress on another thread
NoReader == [pc |-> "idle", successful |-> <<>>, failed |-> <<>>]

\* no operation executor called
NoExec == [op |-> None, kb |-> 0, batch_size |-> 0, prepared |-> TRUE, cid |-> None,
           pc |-> "idle", left |-> 0, metric |-> <<>>]

\* _thick_mode_initialized = False, no init_oracle_client call made, no thread
NoThick == [initialized |-> FALSE, invoked |-> 0, th |-> <<>>]

\* no compare_prepared_vs_direct call made
NoCompare == [pc |-> "idle"]

\* no property of a record read yet
NoReading == <<>>

(***************************************************************************)
(* Strings the code inspects, as sequences of characters.                  *)
(***************************************************************************)
LargeWrite == <<"l","a","r","g","e","_","w","r","i","t","e">>
LargeRead == <<"l","a","r","g","e","_","r","e","a","d">>
CustomOp == <<"p","i","n","g">>
ReadWord == <<"r","e","a","d">>
WriteWord == <<"w","r","i","t","e">>

\* str.lower() on the characters the model uses
LowerChar(c) ==
  CASE c = "R" -> "r" [] c = "E" -> "e" [] c = "A" -> "a" [] c = "D" -> "d"
    [] c = "W" -> "w" [] c = "I" -> "i" [] c = "T" -> "t"
    [] OTHER -> c

Lower(s) == [i \in 1..Len(s) |-> LowerChar(s[i])]

\* Python's  sub in s  for strings
Contains(sub, s) ==
  \E k \in 0..(Len(s) - Len(sub)) :
     \A i \in 1..Len(sub) : s[k + i] = sub[i]

(***************************************************************************)
(* Python integer floor division a // b, b # 0.                            *)
(***************************************************************************)
FloorDiv(a, b) ==
  IF b > 0 THEN a \div b ELSE (0 - a) \div (0 - b)

(***************************************************************************)
(* TestMetrics.                                                            *)
(***************************************************************************)
Metric(op, st, en, ok, err, size, cid) ==
  [operation_type |-> op, start_time |-> st, end_time |-> en, success |-> ok,
   error_message |-> err, data_size_bytes |-> size, connection_id |-> cid]

\* one connection id given to every worker
ConnIdShared(i) == <<"conn_", 0>>

\* f"conn_{connection_id}"
ConnId(i) == <<"conn_", i>>

(***************************************************************************)
(* Exact rationals <<num, den>>, den > 0, in lowest terms.                 *)
(***************************************************************************)
Abs(x) == IF x < 0 THEN 0 - x ELSE x

RECURSIVE GCD(_, _)
GCD(a, b) == IF b = 0 THEN a ELSE GCD(b, a % b)

Rat(n, d) ==
  LET num == IF d < 0 THEN 0 - n ELSE n
      den == Abs(d)
      g == GCD(Abs(num), den)
  IN <<num \div g, den \div g>>

RatInt(i) == <<i, 1>>
RatAdd(a, b) == Rat(a[1] * b[2] + b[1] * a[2], a[2] * b[2])
RatMul(a, b) == Rat(a[1] * b[1], a[2] * b[2])
RatDiv(a, b) == Rat(a[1] * b[2], a[2] * b[1])
RatLe(a, b) == a[1] * b[2] <= b[1] * a[2]
RatLt(a, b) == a[1] * b[2] < b[1] * a[2]

(***************************************************************************)
(* TestMetrics.duration_ms and TestMetrics.throughput_mbps.                *)
(***************************************************************************)
duration_ms(m) == RatInt((m.end_time - m.start_time) * 1000)

\* a throughput that keeps the sign of the elapsed time
throughput_mbpsSigned(m) ==
  IF duration_ms(m) = RatInt(0)
  THEN RatInt(0)
  ELSE RatDiv(RatDiv(RatInt(m.data_size_bytes), RatInt(1024 * 1024)),
              RatDiv(duration_ms(m), RatInt(1000)))

throughput_mbps(m) ==
  IF duration_ms(m) = RatInt(0)
  THEN RatInt(0)
  ELSE LET mb == RatDiv(RatInt(m.data_size_bytes), RatInt(1024 * 1024))
           seconds == RatDiv(duration_ms(m), RatInt(1000))
       IN IF RatLt(RatInt(0), seconds) THEN RatDiv(mb, seconds) ELSE RatInt(0)

(***************************************************************************)
(* The functions of Python's statistics module that get_summary calls,     *)
(* and the built-ins sum, min, max, sorted, on sequences of rationals.     *)
(***************************************************************************)
\* sum(xs); the additions are exact, so they are grouped by halves to keep
\* the evaluation shallow on long lists
RECURSIVE Sum(_)
Sum(xs) ==
  IF xs = <<>> THEN RatInt(0)
  ELSE IF Len(xs) = 1 THEN xs[1]
  ELSE LET h == Len(xs) \div 2
       IN RatAdd(Sum(SubSeq(xs, 1, h)), Sum(SubSeq(xs, h + 1, Len(xs))))

\* sorted(xs): ascending and stable; element i goes to the position given by
\* the number of elements that come before it in that order
Sorted(xs) ==
  LET n == Len(xs)
      rank == [i \in 1..n |->
                 1 + Cardinality({j \in 1..n :
                                    \/ RatLt(xs[j], xs[i])
                                    \/ (xs[j] = xs[i] /\ j < i)})]
  IN [k \in 1..n |-> xs[CHOOSE i \in 1..n : rank[i] = k]]

Min(xs) == Sorted(xs)[1]
Max(xs) == Sorted(xs)[Len(xs)]

\* statistics.mean
Mean(xs) == RatDiv(Sum(xs), RatInt(Len(xs)))

\* statistics.median
Median(xs) ==
  LET data == Sorted(xs)
      n == Len(xs)
  IN IF n % 2 = 1
     THEN data[(n \div 2) + 1]
     ELSE RatDiv(RatAdd(data[n \div 2], data[(n \div 2) + 1]), RatInt(2))

\* statistics.quantiles(xs, n=n)[idx] with the default method 'exclusive'
\* (Len(xs) >= 2): the cut point number idx + 1 of n - 1
Quantiles(xs, n, idx) ==
  LET data == Sorted(xs)
      ld == Len(xs)
      m == ld + 1
      i == idx + 1
      j0 == (i * m) \div n
      j == IF j0 < 1 THEN 1 ELSE IF j0 > ld - 1 THEN ld - 1 ELSE j0
      delta == i * m - j * n
  IN RatDiv(RatAdd(RatMul(data[j], RatInt(n - delta)),
                   RatMul(data[j + 1], RatInt(delta))),
            RatInt(n))

\* statistics.quantiles(...)[idx] if len(...) > 1 else ...[0]
P95(xs) == IF Len(xs) > 1 THEN Quantiles(xs, 20, 18) ELSE xs[1]
P99(xs) == IF Len(xs) > 1 THEN Quantiles(xs, 100, 98) ELSE xs[1]

(***************************************************************************)
(* TestResults.add_metric and TestResults.get_summary.                     *)
(***************************************************************************)
\* an append that keeps one copy of equal records
add_metricUnique(ms, m) ==
  IF \E i \in 1..Len(ms) : ms[i] = m THEN ms ELSE Append(ms, m)

add_metric(ms, m) == Append(ms, m)

\* [m.duration_ms for m in ms]
DurationsOf(ms) == [i \in 1..Len(ms) |-> duration_ms(ms[i])]

IsSuccess(m) == m.success
IsFailure(m) == ~m.success
\* a read test that compares the label as it is spelled
IsReadCaseSensitive(m) == Contains(ReadWord, m.operation_type)

IsRead(m) == Contains(ReadWord, Lower(m.operation_type))
\* a write test that wants the label to be the word itself
IsWriteExact(m) == Lower(m.operation_type) = WriteWord

IsWrite(m) == Contains(WriteWord, Lower(m.operation_type))
HasThroughput(m) == RatLt(RatInt(0), throughput_mbps(m))
\* [m.throughput_mbps for m in ms if m.throughput_mbps > 0]
ThroughputsOf(ms) ==
  LET kept == SelectSeq(ms, HasThroughput)
  IN [i \in 1..Len(kept) |-> throughput_mbps(kept[i])]

\* sum(m.data_size_bytes for m in ms) / (1024 * 1024)
MiB(ms) ==
  RatDiv(Sum([i \in 1..Len(ms) |-> RatInt(ms[i].data_size_bytes)]),
         RatInt(1024 * 1024))

\* success_rate computed without the factor 100
SuccessRateUnscaled(ms, successful) ==
  IF ms # <<>> THEN RatDiv(RatInt(Len(successful)), RatInt(Len(ms))) ELSE RatInt(0)

\* len(successful) / len(self.metrics) * 100 if self.metrics else 0
SuccessRate(ms, successful) ==
  IF ms # <<>>
  THEN RatMul(RatDiv(RatInt(Len(successful)), RatInt(Len(ms))), RatInt(100))
  ELSE RatInt(0)

\* the keys of the first summary dict
\* a total_data_transferred_mb that counts the payload of every record
CountsOfAllData(name, ms, successful, failed) ==
  [k \in {"load_profile", "total_operations", "successful_operations",
          "failed_operations", "success_rate", "total_data_transferred_mb"} |->
     CASE k = "load_profile" -> name
       [] k = "total_operations" -> Len(ms)
       [] k = "successful_operations" -> Len(successful)
       [] k = "failed_operations" -> Len(failed)
       [] k = "success_rate" -> SuccessRate(ms, successful)
       [] OTHER -> MiB(ms)]

CountsOf(name, ms, successful, failed) ==
  [k \in {"load_profile", "total_operations", "successful_operations",
          "failed_operations", "success_rate", "total_data_transferred_mb"} |->
     CASE k = "load_profile" -> name
       [] k = "total_operations" -> Len(ms)
       [] k = "successful_operations" -> Len(successful)
       [] k = "failed_operations" -> Len(failed)
       [] k = "success_rate" -> SuccessRate(ms, successful)
       [] OTHER -> MiB(successful)]

DurationStats(durations) ==
  IF durations = <<>> THEN <<>>
  ELSE [k \in {"avg_duration_ms", "min_duration_ms", "max_duration_ms",
               "median_duration_ms", "p50_duration_ms", "p95_duration_ms",
               "p99_duration_ms"} |->
          CASE k = "avg_duration_ms" -> Mean(durations)
            [] k = "min_duration_ms" -> Min(durations)
            [] k = "max_duration_ms" -> Max(durations)
            [] k = "median_duration_ms" -> Median(durations)
            [] k = "p50_duration_ms" -> Median(durations)
            [] k = "p95_duration_ms" -> P95(durations)
            [] OTHER -> P99(durations)]

ThroughputStats(throughputs) ==
  IF throughputs = <<>> THEN <<>>
  ELSE [k \in {"avg_throughput_mbps", "min_throughput_mbps", "max_throughput_mbps"} |->
          CASE k = "avg_throughput_mbps" -> Mean(throughputs)
            [] k = "min_throughput_mbps" -> Min(throughputs)
            [] OTHER -> Max(throughputs)]

\* the read_ keys
ReadStats(read_metrics) ==
  IF read_metrics = <<>> THEN <<>>
  ELSE LET read_durations == DurationsOf(read_metrics)
           read_throughputs == ThroughputsOf(read_metrics)
       IN [k \in {"read_operations", "read_data_mb", "read_avg_duration_ms",
                  "read_min_duration_ms", "read_max_duration_ms",
                  "read_p50_duration_ms", "read_p95_duration_ms",
                  "read_p99_duration_ms"} |->
             CASE k = "read_operations" -> Len(read_metrics)
               [] k = "read_data_mb" -> MiB(read_metrics)
               [] k = "read_avg_duration_ms" -> Mean(read_durations)
               [] k = "read_min_duration_ms" -> Min(read_durations)
               [] k = "read_max_duration_ms" -> Max(read_durations)
               [] k = "read_p50_duration_ms" -> Median(read_durations)
               [] k = "read_p95_duration_ms" -> P95(read_durations)
               [] OTHER -> P99(read_durations)]
          @@ (IF read_throughputs = <<>> THEN <<>>
              ELSE [k \in {"read_avg_throughput_mbps"} |-> Mean(read_throughputs)])

\* the write_ keys
WriteStats(write_metrics) ==
  IF write_metrics = <<>> THEN <<>>
  ELSE LET write_durations == DurationsOf(write_metrics)
           write_throughputs == ThroughputsOf(write_metrics)
       IN [k \in {"write_operations", "write_data_mb", "write_avg_duration_ms",
                  "write_min_duration_ms", "write_max_duration_ms",
                  "write_p50_duration_ms", "write_p95_duration_ms",
                  "write_p99_duration_ms"} |->
             CASE k = "write_operations" -> Len(write_metrics)
               [] k = "write_data_mb" -> MiB(write_metrics)
               [] k = "write_avg_duration_ms" -> Mean(write_durations)
               [] k = "write_min_duration_ms" -> Min(write_durations)
               [] k = "write_max_duration_ms" -> Max(write_durations)
               [] k = "write_p50_duration_ms" -> Median(write_durations)
               [] k = "write_p95_duration_ms" -> P95(write_durations)
               [] OTHER -> P99(write_durations)]
          @@ (IF write_throughputs = <<>> THEN <<>>
              ELSE [k \in {"write_avg_throughput_mbps"} |-> Mean(write_throughputs)])

\* an emptiness test that never fires
NoMetricsNever(ms) == FALSE

\* if not self.metrics
NoMetrics(ms) == ms = <<>>

\* return {"error": "No metrics collected"}
ErrorSummary == [k \in {"error"} |-> "No metrics collected"]

\* get_summary from the read/write split on: the lists successful and failed
\* are its locals, ms is self.metrics as the summary dict reads it
BuildSummary(name, ms, successful, failed) ==
  LET read_metrics == SelectSeq(successful, IsRead)
      write_metrics == SelectSeq(successful, IsWrite)
      durations == DurationsOf(successful)
      throughputs == ThroughputsOf(successful)
  IN WriteStats(write_metrics) @@ ReadStats(read_metrics)
     @@ ThroughputStats(throughputs) @@ DurationStats(durations)
     @@ CountsOf(name, ms, successful, failed)

get_summary(name, ms) ==
  IF NoMetrics(ms)
  THEN ErrorSummary
  ELSE BuildSummary(name, ms, SelectSeq(ms, IsSuccess), SelectSeq(ms, IsFailure))

(***************************************************************************)
(* State.                                                                  *)
(***************************************************************************)
VARIABLES
  profile,     \* client.load_profile
  entry,       \* the entry point of the current call, None before it
  phase,       \* "idle" | "running" | "returned" | "raised"
  error,       \* the exception raised to the caller of the entry point
  stop_flag,   \* client._stop_flag
  now,         \* time.time()
  pc,          \* per worker: position in worker()
  iter,        \* per worker: iterations of the for loop begun
  op_start,    \* per worker: start_time of the operation in flight
  conn,        \* per worker: its OracleTestConnection
  worker_metrics, \* per worker: the local list worker_metrics
  fut,         \* per worker: outcome of its future
  collected,   \* workers whose future the as_completed loop has consumed
  metrics,     \* the local list 'metrics' of test_concurrent_operations
  ret,         \* the list test_concurrent_operations returned (once phase is
               \* "returned")
  results,     \* client.results.metrics
  summary,     \* what the last call on client.results returned: the mapping of
               \* get_summary(), NoSummary after add_metric() and before any call
  ops_per_conn, \* operations_per_connection of the current call
  threads,     \* per thread that shares client.results: the records it has
               \* still to pass to add_metric and those it has passed
  reader,      \* the locals of a get_summary() call in progress on another thread
  reading,     \* the derived properties last read from a record of
               \* client.results, NoReading before any read
  exec,        \* one call of test_large_write / test_large_read /
               \* test_batch_write in progress: its arguments, its position and
               \* its local 'metric'
  thick,       \* the module global _thick_mode_initialized, the calls of
               \* oracledb.init_oracle_client made, and the position of each
               \* thread inside init_thick_mode() / connect()
  runs,        \* what test_concurrent_operations returned to each run_*_test
               \* call on the client that has returned and been followed by
               \* another call
  cmp          \* one compare_prepared_vs_direct call: its position and locals,
               \* client.use_prepared_statements, and the client as it was
               \* when the call began

vars == <<profile, entry, phase, error, stop_flag, now, pc, iter, op_start, conn,
          worker_metrics, fut, collected, metrics, ret, results, summary, ops_per_conn,
          threads, reader, reading, exec, thick, runs, cmp>>

\* the state of the code that shares one TestResults between threads
sharedVars == <<threads, reader, reading, exec, thick, runs, cmp>>

\* the state of the operation executors, of thick-mode initialization and of
\* the calls that preceded the current one
auxVars == <<exec, thick, runs, cmp>>

workerVars == <<pc, iter, op_start, conn, worker_metrics, fut>>

Workers == DOMAIN pc

RunEntries == {"run_write_test", "run_read_test", "run_mixed_test"}

Entries == RunEntries \cup {"test_concurrent_operations"}

\* the duration_seconds a drawn profile may carry
DurationSeconds == {1, 3}

Profiles ==
  { p \in [name : {"Low Load"},
           concurrent_connections : (0 - 1)..MaxConn,
           operations_per_second : 0..MaxOpsPerSec,
           data_size_kb : {DataSizeKb},
           think_time_ms : {0, ThinkMs},
           duration_seconds : DurationSeconds] :
      p.operations_per_second * p.duration_seconds <= MaxTotalOps }

NoConn == [connection |-> None, cursor |-> None, disconnect_called |-> FALSE]

(***************************************************************************)
(* The operation callbacks: the records one call may return.               *)
(***************************************************************************)
\* test_large_write(conn, data_size_kb): the insert commits or the backend raises
test_large_write(cid, st, en, kb) ==
  { Metric(LargeWrite, st, en, TRUE, None, kb * 1024, cid),
    Metric(LargeWrite, st, en, FALSE, "ORA-error", kb * 1024, cid) }

\* test_large_read(conn): a row (a payload test_large_write stored), no row,
\* or the backend raises
test_large_read(cid, st, en, kb) ==
  { Metric(LargeRead, st, en, TRUE, None, kb * 1024, cid),
    Metric(LargeRead, st, en, FALSE, "No data found to read", 0, cid),
    Metric(LargeRead, st, en, FALSE, "ORA-error", 0, cid) }

\* a caller-supplied operation_func: returns a record (or raises, see OpRaise)
custom_op(cid, st, en) ==
  { Metric(CustomOp, st, en, TRUE, None, 0, cid) }

\* what operation_func(conn) may return under each entry point
OperationFunc(e, cid, st, en, kb) ==
  CASE e = "run_write_test" -> test_large_write(cid, st, en, kb)
    [] e = "run_read_test" -> test_large_read(cid, st, en, kb)
    [] e = "run_mixed_test" ->
         test_large_read(cid, st, en, kb) \cup test_large_write(cid, st, en, kb)
    [] OTHER -> custom_op(cid, st, en)

\* only a caller-supplied callback lets an exception escape
MayRaise(e) == e = "test_concurrent_operations"

(***************************************************************************)
(* Initial state: a fresh client with a drawn LoadProfile.                 *)
(***************************************************************************)
Init ==
  /\ profile \in Profiles
  /\ entry = None
  /\ phase = "idle"
  /\ error = None
  /\ stop_flag = FALSE
  /\ now = 0
  /\ pc = <<>>
  /\ iter = <<>>
  /\ op_start = <<>>
  /\ conn = <<>>
  /\ worker_metrics = <<>>
  /\ fut = <<>>
  /\ collected = {}
  /\ metrics = <<>>
  /\ ret = <<>>
  /\ results = <<>>
  /\ summary = NoSummary
  /\ ops_per_conn = 0
  /\ threads = <<>>
  /\ reader = NoReader
  /\ reading = NoReading
  /\ exec = NoExec
  /\ thick = NoThick
  /\ runs = <<>>
  /\ cmp = NoCompare

(***************************************************************************)
(* run_write_test / run_read_test / run_mixed_test up to the submission of *)
(* the workers, or test_concurrent_operations called directly.             *)
(***************************************************************************)
TotalOperations(p) == p.operations_per_second * p.duration_seconds

\* only the division guards the worker count
StartErrorZeroOnly(e, p) ==
  IF e # "test_concurrent_operations" /\ p.concurrent_connections = 0
  THEN "ZeroDivisionError"
  ELSE None

\* the exception, if any, raised before the first worker is submitted
StartError(e, p) ==
  IF e # "test_concurrent_operations" /\ p.concurrent_connections = 0
  THEN "ZeroDivisionError"                   \* total_operations // 0
  ELSE IF p.concurrent_connections <= 0
  THEN "ValueError"                          \* ThreadPoolExecutor(max_workers <= 0)
  ELSE None

\* the per-worker share rounded up instead of down
OpsPerConnectionCeil(e, p) ==
  IF e = "test_concurrent_operations"
  THEN p.operations_per_second
  ELSE 0 - FloorDiv(0 - TotalOperations(p), p.concurrent_connections)

\* operations_per_second taken as the number of operations of one worker
OpsPerConnectionPerSecond(e, p) == p.operations_per_second

OpsPerConnection(e, p) ==
  IF e = "test_concurrent_operations"
  THEN p.operations_per_second
  ELSE FloorDiv(TotalOperations(p), p.concurrent_connections)

StartRun(e) ==
  /\ phase = "idle"
  /\ entry' = e
  /\ IF StartError(e, profile) # None
     THEN /\ error' = StartError(e, profile)
          /\ phase' = "raised"
          /\ UNCHANGED <<workerVars, ops_per_conn>>
     ELSE LET W == 0..(profile.concurrent_connections - 1) IN
          /\ ops_per_conn' = OpsPerConnection(e, profile)
          /\ phase' = "running"
          /\ pc' = [w \in W |-> "connect"]
          /\ iter' = [w \in W |-> 0]
          /\ op_start' = [w \in W |-> 0]
          /\ conn' = [w \in W |-> NoConn]
          /\ worker_metrics' = [w \in W |-> <<>>]
          /\ fut' = [w \in W |-> None]
          /\ error' = None
  /\ UNCHANGED <<profile, stop_flag, now, collected, metrics, ret, results, summary>>
  /\ UNCHANGED sharedVars

(***************************************************************************)
(* OracleTestConnection.connect / disconnect.                              *)
(***************************************************************************)
ConnectOutcomes == {"ok", "session_fail", "cursor_fail"}

\* the connection object after connect() with the given outcome
connect(c, outcome) ==
  CASE outcome = "ok" -> [c EXCEPT !.connection = "open", !.cursor = "open"]
    [] outcome = "cursor_fail" -> [c EXCEPT !.connection = "open"]
    [] OTHER -> c

\* a connect() whose result the worker cannot tell from success
ConnectReturnsAlways(outcome) == TRUE

\* connect() returns True only when session and cursor were both obtained
ConnectReturns(outcome) == outcome = "ok"

DisconnectOutcomes == {"ok", "cursor_close_fail"}

\* the connection object after disconnect(); an exception in cursor.close()
\* is logged and skips connection.close()
disconnect(c, outcome) ==
  LET called == [c EXCEPT !.disconnect_called = TRUE] IN
  IF c.cursor # None /\ outcome = "cursor_close_fail"
  THEN called
  ELSE [called EXCEPT
          !.cursor = IF c.cursor # None THEN "closed" ELSE c.cursor,
          !.connection = IF c.connection # None THEN "closed" ELSE c.connection]

(***************************************************************************)
(* worker(connection_id).                                                  *)
(***************************************************************************)
Connect(w, outcome) ==
  /\ phase = "running"
  /\ pc[w] = "connect"
  /\ conn' = [conn EXCEPT ![w] = connect(conn[w], outcome)]
  /\ IF ConnectReturns(outcome)
     THEN /\ pc' = [pc EXCEPT ![w] = "check"]
          /\ fut' = fut
     ELSE /\ pc' = [pc EXCEPT ![w] = "done"]
          /\ fut' = [fut EXCEPT ![w] = "result"]
  /\ UNCHANGED <<profile, entry, phase, error, stop_flag, now, iter, op_start, worker_metrics,
                 collected, metrics, ret, results, summary, ops_per_conn>>
  /\ UNCHANGED sharedVars

\* a loop that never looks at the stop flag
ProceedsIgnoringStop(i, n, stopped) == i < n

\* the loop header and the stop-flag test: does the worker begin another operation?
Proceeds(i, n, stopped) == i < n /\ ~stopped

Check(w) ==
  /\ phase = "running"
  /\ pc[w] = "check"
  /\ IF Proceeds(iter[w], ops_per_conn, stop_flag)
     THEN /\ pc' = [pc EXCEPT ![w] = "op"]
          /\ iter' = [iter EXCEPT ![w] = @ + 1]
          /\ op_start' = [op_start EXCEPT ![w] = now]
     ELSE /\ pc' = [pc EXCEPT ![w] = "finally"]
          /\ UNCHANGED <<iter, op_start>>
  /\ UNCHANGED <<profile, entry, phase, error, stop_flag, now, conn, worker_metrics, fut,
                 collected, metrics, ret, results, summary, ops_per_conn>>
  /\ UNCHANGED sharedVars

\* a worker that stopped iterating at its first failed record
AfterOpAbortOnFailure(m, p) ==
  IF ~m.success THEN "finally"
  ELSE IF p.think_time_ms > 0 THEN "sleep" ELSE "check"

\* a worker that begins its next iteration without the think-time pause
AfterOpNoPause(m, p) == "check"

\* where the worker goes after appending record m: the think-time pause or
\* the next iteration, whatever m.success is
AfterOp(m, p) == IF p.think_time_ms > 0 THEN "sleep" ELSE "check"

OpReturn(w) ==
  /\ phase = "running"
  /\ pc[w] = "op"
  /\ \E m \in OperationFunc(entry, ConnId(w), op_start[w], now, profile.data_size_kb) :
        /\ worker_metrics' = [worker_metrics EXCEPT ![w] = Append(@, m)]
        /\ pc' = [pc EXCEPT ![w] = AfterOp(m, profile)]
  /\ UNCHANGED <<profile, entry, phase, error, stop_flag, now, iter, op_start, conn,
                 fut, collected, metrics, ret, results, summary, ops_per_conn>>
  /\ UNCHANGED sharedVars

\* operation_func raises: the finally clause runs and the exception becomes
\* the outcome of the worker's future
OpRaise(w) ==
  /\ phase = "running"
  /\ pc[w] = "op"
  /\ MayRaise(entry)
  /\ pc' = [pc EXCEPT ![w] = "finally"]
  /\ fut' = [fut EXCEPT ![w] = "exception"]
  /\ UNCHANGED <<profile, entry, phase, error, stop_flag, now, iter, op_start, conn,
                 worker_metrics, collected, metrics, ret, results, summary, ops_per_conn>>
  /\ UNCHANGED sharedVars

Sleep(w) ==
  /\ phase = "running"
  /\ pc[w] = "sleep"
  /\ pc' = [pc EXCEPT ![w] = "check"]
  /\ UNCHANGED <<profile, entry, phase, error, stop_flag, now, iter, op_start, conn,
                 worker_metrics, fut, collected, metrics, ret, results, summary, ops_per_conn>>
  /\ UNCHANGED sharedVars

Disconnect(w, outcome) ==
  /\ phase = "running"
  /\ pc[w] = "finally"
  /\ conn' = [conn EXCEPT ![w] = disconnect(conn[w], outcome)]
  /\ pc' = [pc EXCEPT ![w] = "done"]
  /\ fut' = [fut EXCEPT ![w] = IF @ = "exception" THEN @ ELSE "result"]
  /\ UNCHANGED <<profile, entry, phase, error, stop_flag, now, iter, op_start, worker_metrics,
                 collected, metrics, ret, results, summary, ops_per_conn>>
  /\ UNCHANGED sharedVars

(***************************************************************************)
(* The as_completed loop, the return, and run_*_test's add_metric loop.    *)
(***************************************************************************)
\* a merge that puts each record of the worker's list at the front
ExtendReversed(ms, f, b) ==
  IF f = "result" THEN [i \in 1..Len(b) |-> b[Len(b) + 1 - i]] \o ms ELSE ms

\* future.result(): the worker's list, or its exception caught and logged
Extend(ms, f, b) == IF f = "result" THEN ms \o b ELSE ms

\* a loop that takes a future before its worker has finished
as_completedAny(p) == TRUE

\* as_completed(futures) yields a future once its worker has returned or raised
as_completed(p) == p = "done"

Collect(w) ==
  /\ phase = "running"
  /\ as_completed(pc[w])
  /\ w \notin collected
  /\ metrics' = Extend(metrics, fut[w], worker_metrics[w])
  /\ collected' = collected \cup {w}
  /\ UNCHANGED <<profile, entry, phase, error, stop_flag, now, workerVars, ret,
                 results, summary, ops_per_conn>>
  /\ UNCHANGED sharedVars

\* for metric in metrics: self.results.add_metric(metric)
\* (each record goes through add_metric; the list is walked by halves, the
\* second half joined to the first, to keep the evaluation shallow)
RECURSIVE AddAll(_, _)
AddAll(rs, ms) ==
  IF ms = <<>> THEN rs
  ELSE IF Len(ms) = 1 THEN add_metric(rs, ms[1])
  ELSE LET h == Len(ms) \div 2
       IN AddAll(rs, SubSeq(ms, 1, h)) \o AddAll(<<>>, SubSeq(ms, h + 1, Len(ms)))

\* a run that stores its records in a TestResults of its own
StoreFresh(e, rs, ms) == IF e = "test_concurrent_operations" THEN rs ELSE AddAll(<<>>, ms)

\* run_*_test stores what test_concurrent_operations returned; a direct call
\* of test_concurrent_operations leaves client.results alone
Store(e, rs, ms) == IF e = "test_concurrent_operations" THEN rs ELSE AddAll(rs, ms)

Return ==
  /\ phase = "running"
  /\ collected = Workers
  /\ ret' = metrics
  /\ results' = Store(entry, results, metrics)
  /\ phase' = "returned"
  /\ UNCHANGED <<profile, entry, error, stop_flag, now, workerVars, collected,
                 metrics, summary, ops_per_conn>>
  /\ UNCHANGED sharedVars

\* OracleTestClient.stop()
Stop ==
  /\ stop_flag' = TRUE
  /\ UNCHANGED <<profile, entry, phase, error, now, workerVars, collected, metrics,
                 ret, results, summary, ops_per_conn>>
  /\ UNCHANGED sharedVars

\* the wall clock advances
Tick ==
  /\ now < MaxTime
  /\ now' = now + 1
  /\ UNCHANGED <<profile, entry, phase, error, stop_flag, workerVars, collected,
                 metrics, ret, results, summary, ops_per_conn>>
  /\ UNCHANGED sharedVars

(***************************************************************************)
(* Calls on client.results made by the thread that owns the client (it is  *)
(* inside run_*_test while a run is in progress).                          *)
(***************************************************************************)
\* a summary that empties the record list it has reduced
GetSummaryDraining ==
  /\ phase # "running"
  /\ summary' = get_summary(profile.name, results)
  /\ results' = <<>>
  /\ UNCHANGED <<profile, entry, phase, error, stop_flag, now, workerVars, collected,
                 metrics, ret, ops_per_conn>>
  /\ UNCHANGED sharedVars

GetSummary ==
  /\ phase # "running"
  /\ summary' = get_summary(profile.name, results)
  /\ UNCHANGED <<profile, entry, phase, error, stop_flag, now, workerVars, collected,
                 metrics, ret, results, ops_per_conn>>
  /\ UNCHANGED sharedVars

AddMetric(m) ==
  /\ phase = "idle"
  /\ Len(results) < MaxRecords
  /\ results' = add_metric(results, m)
  /\ summary' = NoSummary
  /\ UNCHANGED <<profile, entry, phase, error, stop_flag, now, workerVars, collected,
                 metrics, ret, ops_per_conn>>
  /\ UNCHANGED sharedVars

Next ==
  \/ \E e \in Entries : StartRun(e)
  \/ \E w \in Workers, o \in ConnectOutcomes : Connect(w, o)
  \/ \E w \in Workers : Check(w)
  \/ \E w \in Workers : OpReturn(w)
  \/ \E w \in Workers : OpRaise(w)
  \/ \E w \in Workers : Sleep(w)
  \/ \E w \in Workers, o \in DisconnectOutcomes : Disconnect(w, o)
  \/ \E w \in Workers : Collect(w)
  \/ Return
  \/ Stop
  \/ GetSummary

Spec == Init /\ [][Next]_vars

\* the same run observed with a wall clock that advances
NextTimed == Next \/ Tick

SpecTimed == Init /\ [][NextTimed]_vars

(***************************************************************************)
(* A run of two workers observed with the wall clock, so that operations   *)
(* of different workers complete at different times: one operation per     *)
(* worker under run_*_test, two under a direct test_concurrent_operations. *)
(***************************************************************************)
OrderProfiles ==
  [name : {"Low Load"},
   concurrent_connections : {2},
   operations_per_second : {2},
   data_size_kb : {DataSizeKb},
   think_time_ms : {0, ThinkMs},
   duration_seconds : {1}]

InitOrder ==
  /\ profile \in OrderProfiles
  /\ entry = None
  /\ phase = "idle"
  /\ error = None
  /\ stop_flag = FALSE
  /\ now = 0
  /\ pc = <<>>
  /\ iter = <<>>
  /\ op_start = <<>>
  /\ conn = <<>>
  /\ worker_metrics = <<>>
  /\ fut = <<>>
  /\ collected = {}
  /\ metrics = <<>>
  /\ ret = <<>>
  /\ results = <<>>
  /\ summary = NoSummary
  /\ ops_per_conn = 0
  /\ threads = <<>>
  /\ reader = NoReader
  /\ reading = NoReading
  /\ exec = NoExec
  /\ thick = NoThick
  /\ runs = <<>>
  /\ cmp = NoCompare

SpecOrder == InitOrder /\ [][NextTimed]_vars

(***************************************************************************)
(* The scenario LoadProfile(connections 4, 10 operations per second, 10    *)
(* seconds) under run_write_test with a backend on which every connect()   *)
(* and every insert succeeds, and no stop().  Workers share nothing until   *)
(* their lists are merged, so the scenario lets a worker begin an          *)
(* iteration only when no other worker is behind it: the workers advance   *)
(* together, at most one iteration apart, in every order within that       *)
(* window (Spec explores the unrestricted interleavings on small runs).    *)
(***************************************************************************)
ScenarioProfile ==
  [name |-> "Low Load", concurrent_connections |-> 4, operations_per_second |-> 10,
   data_size_kb |-> DataSizeKb, think_time_ms |-> 0, duration_seconds |-> 10]

InitScenario ==
  /\ profile = ScenarioProfile
  /\ entry = None
  /\ phase = "idle"
  /\ error = None
  /\ stop_flag = FALSE
  /\ now = 0
  /\ pc = <<>>
  /\ iter = <<>>
  /\ op_start = <<>>
  /\ conn = <<>>
  /\ worker_metrics = <<>>
  /\ fut = <<>>
  /\ collected = {}
  /\ metrics = <<>>
  /\ ret = <<>>
  /\ results = <<>>
  /\ summary = NoSummary
  /\ ops_per_conn = 0
  /\ threads = <<>>
  /\ reader = NoReader
  /\ reading = NoReading
  /\ exec = NoExec
  /\ thick = NoThick
  /\ runs = <<>>
  /\ cmp = NoCompare

\* the loop check of a worker that no other worker is behind
CheckInTurn(w) ==
  /\ \A v \in Workers : iter[w] <= iter[v]
  /\ Check(w)

\* operation_func returns a record with success = True
OpSucceeds(w) ==
  /\ OpReturn(w)
  /\ worker_metrics'[w][Len(worker_metrics'[w])].success

NextScenario ==
  \/ StartRun("run_write_test")
  \/ \E w \in Workers : Connect(w, "ok")
  \/ \E w \in Workers : CheckInTurn(w)
  \/ \E w \in Workers : OpSucceeds(w)
  \/ \E w \in Workers : Disconnect(w, "ok")
  \/ \E w \in Workers : Collect(w)
  \/ Return
  \/ GetSummary

SpecScenario == InitScenario /\ [][NextScenario]_vars

(***************************************************************************)
(* The aggregator alone: a TestResults filled by add_metric with records   *)
(* drawn from MetricInputs and summarised by get_summary.                  *)
(***************************************************************************)
\* LoadProfile.low_load()
low_load ==
  [name |-> "Low Load", concurrent_connections |-> 2, operations_per_second |-> 10,
   data_size_kb |-> 10, think_time_ms |-> 100, duration_seconds |-> 60]

OpTypes == {LargeRead, LargeWrite, CustomOp}

\* start_time is 0 and end_time one of these, in seconds
EndTimes == {0, 1, 2}

MetricInputs ==
  { Metric(op, 0, en, ok, IF ok THEN None ELSE "ORA-error", DataSizeKb * 1024, ConnId(0)) :
      op \in OpTypes, en \in EndTimes, ok \in BOOLEAN }

InitAgg ==
  /\ profile = low_load
  /\ entry = None
  /\ phase = "idle"
  /\ error = None
  /\ stop_flag = FALSE
  /\ now = 0
  /\ pc = <<>>
  /\ iter = <<>>
  /\ op_start = <<>>
  /\ conn = <<>>
  /\ worker_metrics = <<>>
  /\ fut = <<>>
  /\ collected = {}
  /\ metrics = <<>>
  /\ ret = <<>>
  /\ results = <<>>
  /\ summary = NoSummary
  /\ ops_per_conn = 0
  /\ threads = <<>>
  /\ reader = NoReader
  /\ reading = NoReading
  /\ exec = NoExec
  /\ thick = NoThick
  /\ runs = <<>>
  /\ cmp = NoCompare

NextAgg ==
  \/ \E m \in MetricInputs : AddMetric(m)
  \/ GetSummary

SpecAgg == InitAgg /\ [][NextAgg]_vars

(***************************************************************************)
(* The aggregator fed with free-form operation_type labels: upper case,    *)
(* both words in one label, neither word.                                  *)
(***************************************************************************)
UpperRead == <<"R","E","A","D">>
ReadWrite == <<"r","e","a","d","w","r","i","t","e">>

FreeOpTypes == {UpperRead, LargeWrite, ReadWrite, CustomOp}

LabelInputs ==
  { Metric(op, 0, 1, ok, IF ok THEN None ELSE "ORA-error", DataSizeKb * 1024, ConnId(0)) :
      op \in FreeOpTypes, ok \in BOOLEAN }

NextLabels ==
  \/ \E m \in LabelInputs : AddMetric(m)
  \/ GetSummary

SpecLabels == InitAgg /\ [][NextLabels]_vars

(***************************************************************************)
(* One TestResults shared between threads: up to MaxThreads threads pass   *)
(* their records to add_metric while another thread calls get_summary().   *)
(* list.append is one indivisible step of the interpreter; get_summary()   *)
(* reads self.metrics anew at lines 165, 168, 169 and 180-184, and the     *)
(* other threads may run between these reads.                              *)
(***************************************************************************)
\* how many records one thread adds
AddCounts == {1, 2}

\* the records thread t may add
ThreadRecords(t) ==
  { Metric(LargeWrite, 0, 1, ok, IF ok THEN None ELSE "ORA-error", DataSizeKb * 1024,
           ConnId(t)) : ok \in BOOLEAN }

\* thread t before its first call: the records it will add, in order
ThreadInputs(t) ==
  { [pending |-> p, added |-> <<>>] :
      p \in UNION { [1..k -> ThreadRecords(t)] : k \in AddCounts } }

InitShared ==
  /\ profile = low_load
  /\ entry = None
  /\ phase = "idle"
  /\ error = None
  /\ stop_flag = FALSE
  /\ now = 0
  /\ pc = <<>>
  /\ iter = <<>>
  /\ op_start = <<>>
  /\ conn = <<>>
  /\ worker_metrics = <<>>
  /\ fut = <<>>
  /\ collected = {}
  /\ metrics = <<>>
  /\ ret = <<>>
  /\ results = <<>>
  /\ summary = NoSummary
  /\ ops_per_conn = 0
  /\ \E n \in 1..MaxThreads :
        threads \in { f \in [0..(n - 1) -> UNION { ThreadInputs(t) : t \in 0..(n - 1) }] :
                        \A t \in 0..(n - 1) : f[t] \in ThreadInputs(t) }
  /\ reader = NoReader
  /\ reading = NoReading
  /\ exec = NoExec
  /\ thick = NoThick
  /\ runs = <<>>
  /\ cmp = NoCompare

\* thread t calls results.add_metric(metric) with its next record
AddMetricBy(t) ==
  /\ threads[t].pending # <<>>
  /\ results' = add_metric(results, Head(threads[t].pending))
  /\ threads' = [threads EXCEPT ![t] = [pending |-> Tail(@.pending),
                                         added |-> Append(@.added, Head(@.pending))]]
  /\ summary' = NoSummary
  /\ UNCHANGED <<profile, entry, phase, error, stop_flag, now, workerVars, collected,
                 metrics, ret, ops_per_conn, reader, reading>>
  /\ UNCHANGED auxVars

\* get_summary() begins: if not self.metrics: return {"error": ...}
ReaderCall ==
  /\ reader.pc = "idle"
  /\ IF NoMetrics(results)
     THEN /\ summary' = ErrorSummary
          /\ reader' = [reader EXCEPT !.pc = "returned"]
     ELSE /\ summary' = NoSummary
          /\ reader' = [reader EXCEPT !.pc = "successful"]
  /\ UNCHANGED <<profile, entry, phase, error, stop_flag, now, workerVars, collected,
                 metrics, ret, results, ops_per_conn, threads, reading>>
  /\ UNCHANGED auxVars

\* successful = [m for m in self.metrics if m.success]
ReaderSuccessful ==
  /\ reader.pc = "successful"
  /\ reader' = [reader EXCEPT !.pc = "failed",
                              !.successful = SelectSeq(results, IsSuccess)]
  /\ UNCHANGED <<profile, entry, phase, error, stop_flag, now, workerVars, collected,
                 metrics, ret, results, summary, ops_per_conn, threads, reading>>
  /\ UNCHANGED auxVars

\* failed = [m for m in self.metrics if not m.success]
ReaderFailed ==
  /\ reader.pc = "failed"
  /\ reader' = [reader EXCEPT !.pc = "build",
                              !.failed = SelectSeq(results, IsFailure)]
  /\ UNCHANGED <<profile, entry, phase, error, stop_flag, now, workerVars, collected,
                 metrics, ret, results, summary, ops_per_conn, threads, reading>>
  /\ UNCHANGED auxVars

\* the rest of get_summary(): the summary dict, which reads self.metrics for
\* total_operations and success_rate, the statistics, and the return
ReaderBuild ==
  /\ reader.pc = "build"
  /\ summary' = BuildSummary(profile.name, results, reader.successful, reader.failed)
  /\ reader' = [reader EXCEPT !.pc = "returned"]
  /\ UNCHANGED <<profile, entry, phase, error, stop_flag, now, workerVars, collected,
                 metrics, ret, results, ops_per_conn, threads, reading>>
  /\ UNCHANGED auxVars

NextShared ==
  \/ \E t \in DOMAIN threads : AddMetricBy(t)
  \/ ReaderCall
  \/ ReaderSuccessful
  \/ ReaderFailed
  \/ ReaderBuild

SpecShared == InitShared /\ [][NextShared]_vars

(***************************************************************************)
(* One record and its derived properties: a TestResults holding a single   *)
(* TestMetrics drawn from RecordInputs, whose duration_ms and              *)
(* throughput_mbps are read.                                               *)
(***************************************************************************)
\* start_time and end_time of a drawn record, in seconds; time.time() may
\* step backwards, so end_time may be less than start_time
RecordTimes == {0, 1, 2}

\* data_size_bytes of a drawn record
RecordSizes == {0, DataSizeKb * 1024, 3 * 1024 * 1024}

RecordInputs ==
  { Metric(op, st, en, ok, IF ok THEN None ELSE "ORA-error", size, ConnId(0)) :
      op \in {LargeRead, LargeWrite}, st \in RecordTimes, en \in RecordTimes,
      ok \in BOOLEAN, size \in RecordSizes }

InitMetric ==
  /\ profile = low_load
  /\ entry = None
  /\ phase = "idle"
  /\ error = None
  /\ stop_flag = FALSE
  /\ now = 0
  /\ pc = <<>>
  /\ iter = <<>>
  /\ op_start = <<>>
  /\ conn = <<>>
  /\ worker_metrics = <<>>
  /\ fut = <<>>
  /\ collected = {}
  /\ metrics = <<>>
  /\ ret = <<>>
  /\ \E m \in RecordInputs : results = add_metric(<<>>, m)
  /\ summary = NoSummary
  /\ ops_per_conn = 0
  /\ threads = <<>>
  /\ reader = NoReader
  /\ reading = NoReading
  /\ exec = NoExec
  /\ thick = NoThick
  /\ runs = <<>>
  /\ cmp = NoCompare

\* metric.duration_ms and metric.throughput_mbps read from record i
ReadProperties(i) ==
  /\ reading' = [index |-> i,
                 duration_ms |-> duration_ms(results[i]),
                 throughput_mbps |-> throughput_mbps(results[i])]
  /\ UNCHANGED <<profile, entry, phase, error, stop_flag, now, workerVars, collected,
                 metrics, ret, results, summary, ops_per_conn, threads, reader>>
  /\ UNCHANGED auxVars

NextMetric == \E i \in 1..Len(results) : ReadProperties(i)

SpecMetric == InitMetric /\ [][NextMetric]_vars

(***************************************************************************)
(* Properties.                                                             *)
(***************************************************************************)
\* connect() returned True for worker w
Connected(w) == conn[w].cursor # None

\* the number of records of worker w's connection in a sequence
CountFor(w, ms) == Cardinality({i \in 1..Len(ms) : ms[i].connection_id = ConnId(w)})

\* C1: a run_*_test on a fresh client in which every worker connected and
\* stop() was not called returns exactly C x (T div C) records, T being
\* operations_per_second x duration_seconds; the 0..C-1 remainder operations
\* are dropped.
C1_FloorDivisionCount ==
  (/\ phase = "returned"
   /\ entry \in RunEntries
   /\ ~stop_flag
   /\ \A w \in Workers : Connected(w))
  => LET C == profile.concurrent_connections
         T == profile.operations_per_second * profile.duration_seconds
     IN /\ Len(ret) = C * (T \div C)
        /\ results = ret
        /\ T - Len(ret) \in 0..(C - 1)

C1_Witness ==
  /\ phase = "returned"
  /\ entry \in RunEntries
  /\ ~stop_flag
  /\ \A w \in Workers : Connected(w)
  /\ profile.concurrent_connections = 2
  /\ profile.operations_per_second * profile.duration_seconds = 3
  /\ Len(ret) = 2

\* C2: when the run returns, no connection a worker acquired is still open.
C2_AllConnectionsClosed ==
  phase = "returned" => \A w \in Workers : conn[w].connection # "open"

C4_FailureDoesNotAbortWorker ==
  \A w \in Workers :
    (entry \in RunEntries /\ ~stop_flag /\ pc[w] = "done" /\ Connected(w))
    => /\ Len(worker_metrics[w]) = ops_per_conn
       /\ fut[w] = "result"

C4_Witness ==
  /\ entry \in RunEntries
  /\ ~stop_flag
  /\ \E w \in Workers :
       /\ pc[w] = "done"
       /\ Connected(w)
       /\ Len(worker_metrics[w]) = 3
       /\ ~worker_metrics[w][1].success
       /\ ~worker_metrics[w][2].success
       /\ worker_metrics[w][3].success

\* C5: a run_*_test that is not stopped raises nothing and returns exactly
\* operations_per_connection records for each worker whose connect()
\* succeeded and none for a worker whose connect() failed.
C5_ConnectFailureIsLocal ==
  (phase = "returned" /\ entry \in RunEntries /\ ~stop_flag)
  => /\ error = None
     /\ \A w \in Workers :
          CountFor(w, ret) = IF Connected(w) THEN ops_per_conn ELSE 0

C5_Witness ==
  /\ phase = "returned"
  /\ entry \in RunEntries
  /\ ~stop_flag
  /\ \E v, w \in Workers :
       /\ ~Connected(v)
       /\ Connected(w)
       /\ CountFor(w, ret) = 1
       /\ Len(ret) = 1

\* C6: every record a worker appended to its local buffer is in the sequence
\* test_concurrent_operations returns.
C6_NoRecordDiscarded ==
  phase = "returned" =>
    \A w \in Workers : \A i \in 1..Len(worker_metrics[w]) :
       \E j \in 1..Len(ret) : ret[j] = worker_metrics[w][i]

\* C7: with concurrent_connections <= 0 a run_*_test ends with an exception
\* raised to its caller, no worker having been created, no connection opened
\* and no record produced.
C7_InvalidProfileFailsFast ==
  (entry \in RunEntries /\ profile.concurrent_connections <= 0)
  => /\ phase = "raised"
     /\ error # None
     /\ Workers = {}
     /\ ret = <<>>
     /\ results = <<>>

C7_Witness ==
  /\ entry \in RunEntries
  /\ profile.concurrent_connections < 0
  /\ phase = "raised"
  /\ error = "ValueError"

\* C8: get_summary() on a TestResults without records returns a mapping whose
\* only key is 'error'; on one with records the mapping has no 'error' key.
C8_EmptySummaryIsNoData ==
  summary # NoSummary =>
    IF results = <<>>
    THEN DOMAIN summary = {"error"}
    ELSE "error" \notin DOMAIN summary

C8_Witness == summary # NoSummary /\ results = <<>>

\* C9: for N > 0 records of which K succeeded, get_summary() reports
\* total_operations = N, successful_operations = K, failed_operations = N - K
\* and success_rate = 100 x K / N, which lies in [0, 100].
C9_CountsAndSuccessRate ==
  (summary # NoSummary /\ results # <<>>)
  => LET N == Len(results)
         K == Cardinality({i \in 1..Len(results) : results[i].success})
         rate == summary["success_rate"]
     IN /\ summary["total_operations"] = N
        /\ summary["successful_operations"] = K
        /\ summary["failed_operations"] = N - K
        /\ rate[1] * N = 100 * K * rate[2]
        /\ rate[2] > 0
        /\ 0 <= rate[1]
        /\ rate[1] <= 100 * rate[2]

C9_Witness ==
  /\ summary # NoSummary
  /\ Len(results) = 3
  /\ Cardinality({i \in 1..Len(results) : results[i].success}) = 2

\* the percentile under key p lies between the values under lo and hi, and
\* equals both when the n values are a single one
PercentileWithin(s, p, lo, hi, n) ==
  p \in DOMAIN s =>
    /\ RatLe(s[lo], s[p])
    /\ RatLe(s[p], s[hi])
    /\ n = 1 => s[p] = s[lo]

\* C10: p95 and p99 reported by get_summary() lie between the minimum and the
\* maximum duration (and equal the single duration when there is one), for
\* the overall, the read_ and the write_ statistics alike.
C10_PercentilesWithinRange ==
  summary # NoSummary =>
    LET n(Test(_)) ==
          Cardinality({i \in 1..Len(results) : results[i].success /\ Test(results[i])})
        all(m) == TRUE
    IN /\ PercentileWithin(summary, "p95_duration_ms", "min_duration_ms",
                           "max_duration_ms", n(all))
       /\ PercentileWithin(summary, "p99_duration_ms", "min_duration_ms",
                           "max_duration_ms", n(all))
       /\ PercentileWithin(summary, "read_p95_duration_ms", "read_min_duration_ms",
                           "read_max_duration_ms", n(IsRead))
       /\ PercentileWithin(summary, "read_p99_duration_ms", "read_min_duration_ms",
                           "read_max_duration_ms", n(IsRead))
       /\ PercentileWithin(summary, "write_p95_duration_ms", "write_min_duration_ms",
                           "write_max_duration_ms", n(IsWrite))
       /\ PercentileWithin(summary, "write_p99_duration_ms", "write_min_duration_ms",
                           "write_max_duration_ms", n(IsWrite))

\* the durations of the successful records of client.results, ascending
SortedDurations == Sorted(DurationsOf(SelectSeq(results, IsSuccess)))

\* ceil(p/100 x n)
CeilPct(p, n) == (p * n + 99) \div 100

\* C11: for N successful records p95_duration_ms is the element at index
\* ceil(0.95 x N) - 1 (counting from 0) of the ascending-sorted successful
\* durations and p99_duration_ms the one at index ceil(0.99 x N) - 1; with
\* fewer than 2 successful records both are the single duration.
C11_PercentileIsSortedIndex ==
  (summary # NoSummary /\ "p95_duration_ms" \in DOMAIN summary)
  => LET N == Len(SortedDurations)
     IN IF N < 2
        THEN /\ summary["p95_duration_ms"] = SortedDurations[1]
             /\ summary["p99_duration_ms"] = SortedDurations[1]
        ELSE /\ summary["p95_duration_ms"] = SortedDurations[CeilPct(95, N)]
             /\ summary["p99_duration_ms"] = SortedDurations[CeilPct(99, N)]

\* C12: throughput_mbps of a record whose end_time equals its start_time is
\* exactly 0 whatever its data_size_bytes, and so is that of a record whose
\* end_time is before its start_time; for every record the value is defined
\* (no division by zero) and not negative.
C12_ThroughputZeroElapsed ==
  reading # NoReading
  => LET m == results[reading.index]
         t == reading.throughput_mbps
     IN /\ m.end_time <= m.start_time => t = RatInt(0)
        /\ t[2] > 0
        /\ t[1] >= 0

C12_Witness ==
  /\ reading # NoReading
  /\ results[reading.index].end_time = results[reading.index].start_time
  /\ results[reading.index].data_size_bytes > 0
  /\ reading.throughput_mbps = RatInt(0)

\* word occurs in label s, letter case ignored
HasWord(word, s) ==
  \E k \in 0..(Len(s) - Len(word)) :
     \A i \in 1..Len(word) : LowerChar(s[k + i]) = word[i]

\* the keys every read (write) sub-summary carries
ReadKeys ==
  {"read_operations", "read_data_mb", "read_avg_duration_ms", "read_min_duration_ms",
   "read_max_duration_ms", "read_p50_duration_ms", "read_p95_duration_ms",
   "read_p99_duration_ms"}

WriteKeys ==
  {"write_operations", "write_data_mb", "write_avg_duration_ms", "write_min_duration_ms",
   "write_max_duration_ms", "write_p50_duration_ms", "write_p95_duration_ms",
   "write_p99_duration_ms"}

\* the keys of keys are all in the mapping if present holds, none otherwise
SubSummaryIff(keys, extra, present) ==
  IF present
  THEN keys \subseteq DOMAIN summary
  ELSE (keys \cup {extra}) \cap DOMAIN summary = {}

\* C13 (as stated): for a non-empty record set the read sub-summary is in
\* get_summary()'s mapping if and only if some record's operation_type
\* contains 'read', letter case ignored, and the write sub-summary if and
\* only if some record's operation_type contains 'write'.
C13_SubSummaryIffAnyRecord ==
  (summary # NoSummary /\ results # <<>>)
  => /\ SubSummaryIff(ReadKeys, "read_avg_throughput_mbps",
                       \E i \in 1..Len(results) :
                          HasWord(ReadWord, results[i].operation_type))
     /\ SubSummaryIff(WriteKeys, "write_avg_throughput_mbps",
                       \E i \in 1..Len(results) :
                          HasWord(WriteWord, results[i].operation_type))

\* C13 (amended): the read (write) sub-summary is in the mapping if and only
\* if some SUCCESSFUL record's operation_type contains 'read' ('write'),
\* letter case ignored.
C13_SubSummaryIffSuccessfulRecord ==
  (summary # NoSummary /\ results # <<>>)
  => /\ SubSummaryIff(ReadKeys, "read_avg_throughput_mbps",
                       \E i \in 1..Len(results) :
                          /\ results[i].success
                          /\ HasWord(ReadWord, results[i].operation_type))
     /\ SubSummaryIff(WriteKeys, "write_avg_throughput_mbps",
                       \E i \in 1..Len(results) :
                          /\ results[i].success
                          /\ HasWord(WriteWord, results[i].operation_type))

C13_Witness ==
  /\ summary # NoSummary
  /\ Len(results) = 3
  /\ results[1].operation_type = UpperRead /\ results[1].success
  /\ results[2].operation_type = LargeWrite /\ ~results[2].success
  /\ results[3].operation_type = CustomOp /\ results[3].success
  /\ "read_operations" \in DOMAIN summary
  /\ "write_operations" \notin DOMAIN summary

\* the count under key k, 0 when the sub-summary is missing
CountOr0(k) == IF k \in DOMAIN summary THEN summary[k] ELSE 0

\* C14: whatever the operation_type labels, read_operations +
\* write_operations <= successful_operations, a missing sub-summary counting
\* as 0.
C14_ReadPlusWriteAtMostSuccessful ==
  (summary # NoSummary /\ results # <<>>)
  => CountOr0("read_operations") + CountOr0("write_operations")
        <= summary["successful_operations"]

\* C15: a get_summary() call changes neither the metrics sequence (its
\* length, order and records) nor the load_profile, and when the previous
\* call on the TestResults was a get_summary() too (no add_metric in
\* between) it returns a mapping equal to the one that call returned.
C15_SummaryIsReadOnly ==
  [][summary' # NoSummary
       => /\ results' = results
          /\ profile' = profile
          /\ summary # NoSummary => summary' = summary]_vars

C15_Witness ==
  /\ summary # NoSummary
  /\ Len(results) = 3
  /\ summary["total_operations"] = 3
  /\ "read_operations" \in DOMAIN summary

\* how often record r occurs in the sequence ms
Occurrences(r, ms) == Cardinality({i \in 1..Len(ms) : ms[i] = r})

\* how often record r has been passed to add_metric, all threads together
TimesAdded(r) ==
  Cardinality({ti \in (DOMAIN threads) \X AddCounts :
                 /\ ti[2] <= Len(threads[ti[1]].added)
                 /\ threads[ti[1]].added[ti[2]] = r})

\* the add_metric calls made so far, all threads together
CallsMade ==
  Cardinality({ti \in (DOMAIN threads) \X AddCounts :
                 ti[2] <= Len(threads[ti[1]].added)})

\* C16: under every interleaving of threads that call add_metric on one
\* TestResults, metrics holds exactly the records added so far, each as often
\* as it was added and whole, and its length is the number of calls made; so
\* after all calls complete nothing is lost, duplicated or torn.
C16_AddMetricThreadSafe ==
  /\ Len(results) = CallsMade
  /\ \A i \in 1..Len(results) :
        \E t \in DOMAIN threads : results[i] \in ThreadRecords(t)
  /\ \A t \in DOMAIN threads : \A r \in ThreadRecords(t) :
        Occurrences(r, results) = TimesAdded(r)

C16_Witness ==
  /\ DOMAIN threads = {0, 1}
  /\ \A t \in DOMAIN threads : threads[t].pending = <<>> /\ Len(threads[t].added) = 2
  /\ Len(results) = 4
  /\ results[1].connection_id = ConnId(1)
  /\ results[2].connection_id = ConnId(0)
  /\ results[3].connection_id = ConnId(1)
  /\ results[4] = results[2]

\* C17: the mapping a get_summary() call returns while other threads call
\* add_metric is computed from one snapshot of the records: total_operations
\* = successful_operations + failed_operations and success_rate = 100 x
\* successful_operations / total_operations.
C17_SummaryFromOneSnapshot ==
  (summary # NoSummary /\ "total_operations" \in DOMAIN summary)
  => /\ summary["total_operations"]
          = summary["successful_operations"] + summary["failed_operations"]
     /\ summary["success_rate"][1] * summary["total_operations"]
          = 100 * summary["successful_operations"] * summary["success_rate"][2]

\* C18: a run has exactly concurrent_connections workers, numbered from 0,
\* each with a connection of its own id (conn_0 .. conn_{C-1}, pairwise
\* distinct); a worker is inside its loop (checking, executing an operation
\* or pausing) only while its own connection is open, that is after its
\* connect() and before its disconnect(); and every record a worker produced
\* carries that worker's connection id, so no connection serves two workers.
C18_OneConnectionPerWorker ==
  phase \in {"running", "returned"}
  => /\ Workers = 0..(profile.concurrent_connections - 1)
     /\ \A v, w \in Workers : v # w => ConnId(v) # ConnId(w)
     /\ \A w \in Workers :
          pc[w] \in {"check", "op", "sleep"}
          => /\ conn[w].connection = "open"
             /\ conn[w].cursor = "open"
             /\ ~conn[w].disconnect_called
     /\ \A w \in Workers : \A i \in 1..Len(worker_metrics[w]) :
          /\ worker_metrics[w][i].connection_id = ConnId(w)
          /\ \A v \in Workers \ {w} : worker_metrics[w][i].connection_id # ConnId(v)

C18_Witness ==
  /\ phase = "running"
  /\ Workers = {0, 1}
  /\ \A w \in Workers : pc[w] = "op" /\ Len(worker_metrics[w]) = 1

\* C19 (as stated): after a run the records of TestResults.metrics are in the
\* order in which their operations completed: a record whose operation
\* completed earlier never comes after one that completed later, whichever
\* workers they come from.
C19_CompletionOrder ==
  (phase = "returned" /\ entry \in RunEntries)
  => \A i, j \in 1..Len(results) :
        i < j => results[i].end_time <= results[j].end_time

\* C19 (amended): the list a run returns is grouped by worker: the records
\* of one worker are contiguous, in the order in which that worker's
\* operations completed, and are exactly the list its future delivered;
\* run_*_test stores the list in TestResults.metrics in that same order.
C19_GroupedByWorker ==
  phase = "returned"
  => /\ entry \in RunEntries => results = ret
     /\ \A i, j \in 1..Len(ret) :
          (i < j /\ ret[i].connection_id = ret[j].connection_id)
          => /\ ret[i].end_time <= ret[j].end_time
             /\ \A k \in i..j : ret[k].connection_id = ret[i].connection_id
     /\ \A w \in Workers :
          SelectSeq(ret, LAMBDA m : m.connection_id = ConnId(w))
             = IF fut[w] = "result" THEN worker_metrics[w] ELSE <<>>

C19_Witness ==
  /\ phase = "returned"
  /\ entry \in RunEntries
  /\ Len(results) = 2
  /\ results[1].connection_id = ConnId(1)
  /\ results[1].end_time = 1
  /\ results[2].connection_id = ConnId(0)
  /\ results[2].end_time = 0

\* C20 (as stated): profile(connections 4, ops_per_sec 10, duration 10) run
\* with every operation succeeding and every worker connecting gives a
\* TestResults that reports total_operations = 40 and success_rate = 100.
C20_ScenarioTotalForty ==
  (phase = "returned" /\ summary # NoSummary /\ "total_operations" \in DOMAIN summary)
  => /\ summary["total_operations"] = 40
     /\ summary["success_rate"] = RatInt(100)

\* C20 (amended): the same run gives a TestResults that reports
\* total_operations = 100, that is 4 workers x 25 operations each (10 x 10
\* operations shared out by floor division), and success_rate = 100.
C20_ScenarioTotalHundred ==
  phase = "returned"
  => /\ Len(results) = 100
     /\ \A w \in Workers : CountFor(w, results) = 25
     /\ (summary # NoSummary /\ "total_operations" \in DOMAIN summary)
        => /\ summary["total_operations"] = 100
           /\ summary["successful_operations"] = 100
           /\ summary["success_rate"] = RatInt(100)

C20_Witness ==
  /\ phase = "returned"
  /\ Cardinality(Workers) = 4
  /\ summary # NoSummary
  /\ "total_operations" \in DOMAIN summary
  /\ summary["total_operations"] = 100
  /\ summary["success_rate"] = RatInt(100)

\* every record of client.results is a successful 'large_write'
AllLargeWriteSucceeded ==
  /\ results # <<>>
  /\ \A i \in 1..Len(results) :
       results[i].operation_type = LargeWrite /\ results[i].success

\* the keys of the overall statistics of a summary with successful records
OverallKeys ==
  {"load_profile", "total_operations", "successful_operations", "failed_operations",
   "success_rate", "total_data_transferred_mb", "avg_duration_ms", "min_duration_ms",
   "max_duration_ms", "median_duration_ms", "p50_duration_ms", "p95_duration_ms",
   "p99_duration_ms"}

\* C21 (as stated): when every record is a successful 'large_write',
\* get_summary() holds the overall statistics and neither a read_ nor a
\* write_ key.
C21_NoBreakdownForLargeWrite ==
  (summary # NoSummary /\ AllLargeWriteSucceeded)
  => /\ OverallKeys \subseteq DOMAIN summary
     /\ (ReadKeys \cup {"read_avg_throughput_mbps"}) \cap DOMAIN summary = {}
     /\ (WriteKeys \cup {"write_avg_throughput_mbps"}) \cap DOMAIN summary = {}

\* C21 (amended): when every record is a successful 'large_write',
\* get_summary() holds the overall statistics, no read_ key, and the whole
\* write sub-summary, whose write_operations is the number of records.
C21_WriteBreakdownForLargeWrite ==
  (summary # NoSummary /\ AllLargeWriteSucceeded)
  => /\ OverallKeys \subseteq DOMAIN summary
     /\ (ReadKeys \cup {"read_avg_throughput_mbps"}) \cap DOMAIN summary = {}
     /\ WriteKeys \subseteq DOMAIN summary
     /\ summary["write_operations"] = Len(results)
     /\ summary["write_operations"] = summary["total_operations"]

C21_Witness ==
  /\ summary # NoSummary
  /\ AllLargeWriteSucceeded
  /\ Len(results) = 2
  /\ summary["write_operations"] = 2
  /\ "read_operations" \notin DOMAIN summary


(***************************************************************************)
(* The operation executors test_large_write, test_large_read and           *)
(* test_batch_write, one call step by step: the record is created with     *)
(* success = False and end_time = 0, the try block generates the payload,  *)
(* executes, fetches or commits, the except clause stores str(e), and the  *)
(* finally clause sets end_time.  Every call to the backend may raise.     *)
(* time.time() is the wall clock: it may be set forwards or back between   *)
(* two reads.                                                              *)
(***************************************************************************)
BatchWrite == <<"b","a","t","c","h","_","w","r","i","t","e">>

ExecOps == {"test_large_write", "test_large_read", "test_batch_write"}

\* operation_type of the record each executor creates
Label(op) ==
  CASE op = "test_large_write" -> LargeWrite
    [] op = "test_large_read" -> LargeRead
    [] OTHER -> BatchWrite

\* batch_size of a test_batch_write call
BatchSizes == {1, 2}

\* len(self._generate_test_data(size_kb)): size_kb * 1024 characters
GeneratedLen(size_kb) == size_kb * 1024

\* the calls one may make: the executor, its size argument, the batch size,
\* use_prepared_statements and the connection passed
ExecInputs ==
  { [NoExec EXCEPT !.op = op, !.kb = kb, !.batch_size = IF op = "test_batch_write" THEN b ELSE 1,
                   !.prepared = pr, !.cid = ConnId(c), !.pc = "called"] :
      op \in ExecOps, kb \in 0..DataSizeKb, b \in BatchSizes, pr \in BOOLEAN,
      c \in 0..(MaxConn - 1) }

InitExec ==
  /\ profile = low_load
  /\ entry = None
  /\ phase = "idle"
  /\ error = None
  /\ stop_flag = FALSE
  /\ now \in 0..MaxTime
  /\ pc = <<>>
  /\ iter = <<>>
  /\ op_start = <<>>
  /\ conn = <<>>
  /\ worker_metrics = <<>>
  /\ fut = <<>>
  /\ collected = {}
  /\ metrics = <<>>
  /\ ret = <<>>
  /\ results = <<>>
  /\ summary = NoSummary
  /\ ops_per_conn = 0
  /\ threads = <<>>
  /\ reader = NoReader
  /\ reading = NoReading
  /\ exec \in ExecInputs
  /\ thick = NoThick
  /\ runs = <<>>
  /\ cmp = NoCompare

execOther == <<profile, entry, phase, error, stop_flag, workerVars, collected, metrics,
               ret, results, summary, ops_per_conn, threads, reader, reading, thick, runs, cmp>>

\* metric = TestMetrics(operation_type=..., start_time=start_time, end_time=0,
\*                      success=False, connection_id=connection.connection_id)
NewMetric(op, start_time, cid) == Metric(Label(op), start_time, 0, FALSE, None, 0, cid)

\* cursor.execute / cursor.executemany calls the try block makes: one, or one
\* per item of the batch without prepared statements
Executes(op, batch_size, prepared) ==
  IF op = "test_batch_write" /\ ~prepared THEN batch_size ELSE 1

\* start_time = time.time(); metric = TestMetrics(...)
ExecBegin ==
  /\ exec.pc = "called"
  /\ exec' = [exec EXCEPT !.metric = NewMetric(exec.op, now, exec.cid),
                          !.left = Executes(exec.op, exec.batch_size, exec.prepared),
                          !.pc = IF exec.op = "test_large_read" THEN "execute"
                                 ELSE "generate"]
  /\ UNCHANGED <<now, execOther>>

\* metric.data_size_bytes = len(test_data), or the sum over the batch
ExecGenerate ==
  /\ exec.pc = "generate"
  /\ exec' = [exec EXCEPT
                !.metric.data_size_bytes = exec.batch_size * GeneratedLen(exec.kb),
                !.pc = "execute"]
  /\ UNCHANGED <<now, execOther>>


\* except Exception as e: metric.error_message = str(e)
Raised(m, e) == [m EXCEPT !.error_message = e]

\* a read that finds no row and says nothing
NoRowFoundSilent(m) == m

\* else: metric.error_message = "No data found to read"
NoRowFound(m) == [m EXCEPT !.error_message = "No data found to read"]

\* metric.success = True
Succeeded(m) == [m EXCEPT !.success = TRUE]

\* finally: metric.end_time = time.time()
Finalized(m, t) == [m EXCEPT !.end_time = t]

\* str(e) of what the backend raises
BackendErrors == {"ORA-error"}

\* one cursor.execute / executemany returns or raises
ExecExecute ==
  /\ exec.pc = "execute"
  /\ \/ exec' = [exec EXCEPT
                   !.left = @ - 1,
                   !.pc = IF exec.left > 1 THEN "execute"
                          ELSE IF exec.op = "test_large_read" THEN "fetch" ELSE "commit"]
     \/ \E e \in BackendErrors :
          exec' = [exec EXCEPT !.metric = Raised(@, e), !.pc = "finally"]
  /\ UNCHANGED <<now, execOther>>

\* connection.connection.commit() returns or raises
ExecCommit ==
  /\ exec.pc = "commit"
  /\ \/ exec' = [exec EXCEPT !.metric = Succeeded(@), !.pc = "finally"]
     \/ \E e \in BackendErrors :
          exec' = [exec EXCEPT !.metric = Raised(@, e), !.pc = "finally"]
  /\ UNCHANGED <<now, execOther>>

\* len(data) of the row fetchone() returned: a stored payload, or nothing
\* (data is None or empty: len(data) if data else 0)
RowLens == {0, GeneratedLen(DataSizeKb)}

\* result = connection.cursor.fetchone(): a row (a LOB is read first), no
\* row, or fetchone() / data.read() / len(data) raises
ExecFetch ==
  /\ exec.pc = "fetch"
  /\ \/ \E n \in RowLens :
          exec' = [exec EXCEPT !.metric = Succeeded([@ EXCEPT !.data_size_bytes = n]),
                               !.pc = "finally"]
     \/ exec' = [exec EXCEPT !.metric = NoRowFound(@), !.pc = "finally"]
     \/ \E e \in BackendErrors :
          exec' = [exec EXCEPT !.metric = Raised(@, e), !.pc = "finally"]
  /\ UNCHANGED <<now, execOther>>

\* finally: metric.end_time = time.time(); return metric
ExecFinally ==
  /\ exec.pc = "finally"
  /\ exec' = [exec EXCEPT !.metric = Finalized(@, now), !.pc = "returned"]
  /\ UNCHANGED <<now, execOther>>

\* the system clock is set: time.time() is not monotonic
ClockSet ==
  /\ \E t \in 0..MaxTime : t # now /\ now' = t
  /\ UNCHANGED <<exec, execOther>>

NextExec ==
  \/ ExecBegin
  \/ ExecGenerate
  \/ ExecExecute
  \/ ExecCommit
  \/ ExecFetch
  \/ ExecFinally
  \/ ClockSet

SpecExec == InitExec /\ [][NextExec]_vars

\* C22: every record test_large_write, test_large_read or test_batch_write
\* returns has error_message present if and only if success is false, on every
\* path.
C22_ErrorMessageIffFailure ==
  exec.pc = "returned" =>
    ((exec.metric.error_message # None) <=> ~exec.metric.success)

\* each executor returns on each of its paths: success, an exception at each
\* step, and a read that finds no row
C22_Witness ==
  /\ exec.pc = "returned"
  /\ exec.op = "test_large_read"
  /\ exec.metric.error_message = "No data found to read"
  /\ ~exec.metric.success


\* C24: test_large_write(connection, data_size_kb) returns one record with
\* operation_type "large_write", the connection_id of the connection passed,
\* data_size_bytes = data_size_kb * 1024 and end_time >= start_time, whether the
\* write succeeds or the backend fails.
C24_LargeWriteRecord ==
  (exec.pc = "returned" /\ exec.op = "test_large_write") =>
    /\ exec.metric.operation_type = LargeWrite
    /\ exec.metric.connection_id = exec.cid
    /\ exec.metric.data_size_bytes = exec.kb * 1024
    /\ exec.metric.end_time >= exec.metric.start_time


\* worker w went through 'if not conn.connect(): return worker_metrics':
\* connect() returned False
ConnectReturnedFalse(w) == pc[w] = "done" /\ ~conn[w].disconnect_called

\* C23: connect() never raises; when it returns False the object holds no
\* connection (connection is None), and when it returns True both connection
\* and cursor are set, for a failure at any step of connecting.
C23_ConnectAllOrNothing ==
  \A w \in Workers :
    /\ ConnectReturnedFalse(w) => conn[w].connection = None
    /\ pc[w] \in {"check", "op", "sleep", "finally"} =>
         (conn[w].connection # None /\ conn[w].cursor # None)


\* the keys of the summary that count records, failed ones included
CountKeys == {"total_operations", "failed_operations", "success_rate"}

\* the bytes of the successful records of client.results
SuccessfulBytes ==
  LET ok == SelectSeq(results, IsSuccess)
  IN Sum([i \in 1..Len(ok) |-> RatInt(ok[i].data_size_bytes)])

\* C25: failed records contribute to the counts only: apart from
\* total_operations, failed_operations and success_rate the summary is the one
\* the successful records alone would give; total_data_transferred_mb is the
\* sum of data_size_bytes over the successful records, in MiB; the throughput
\* statistics are present exactly when a successful record has a throughput
\* above 0, and their minimum is above 0.
C25_FailedRecordsCountOnly ==
  (summary # NoSummary /\ results # <<>>) =>
    LET ok == SelectSeq(results, IsSuccess)
        alone == BuildSummary(profile.name, ok, ok, <<>>)
    IN /\ DOMAIN summary = DOMAIN alone
       /\ \A k \in DOMAIN summary \ CountKeys : summary[k] = alone[k]
       /\ summary["total_data_transferred_mb"] = RatDiv(SuccessfulBytes, RatInt(1024 * 1024))
       /\ "avg_throughput_mbps" \in DOMAIN summary <=>
            \E i \in 1..Len(ok) : ok[i].end_time > ok[i].start_time /\ ok[i].data_size_bytes > 0
       /\ "min_throughput_mbps" \in DOMAIN summary =>
            RatLt(RatInt(0), summary["min_throughput_mbps"])

\* a summary of a failed write that carried a payload, a successful record
\* with a throughput and a successful record without one
C25_Witness ==
  /\ summary # NoSummary
  /\ Len(results) = 3
  /\ \E i \in 1..3 : ~results[i].success /\ results[i].data_size_bytes > 0
                     /\ results[i].operation_type = LargeWrite
  /\ \E i \in 1..3 : results[i].success /\ results[i].end_time > results[i].start_time
  /\ \E i \in 1..3 : results[i].success /\ results[i].end_time = results[i].start_time
  /\ summary["failed_operations"] = 1
  /\ summary["total_data_transferred_mb"] = Rat(2 * DataSizeKb * 1024, 1024 * 1024)


(***************************************************************************)
(* Thick-mode initialization: the module global _thick_mode_initialized    *)
(* is tested and set without a lock, by init_thick_mode() and by           *)
(* connect() of a connection created with use_thick_mode=True.  Threads    *)
(* (the workers of a pool, or the caller) make such calls; a thread may    *)
(* be switched between the test of the flag, the call of                   *)
(* oracledb.init_oracle_client and the assignment of the flag.             *)
(* init_oracle_client returns normally when called again with the same     *)
(* arguments, and raises when the client library cannot be loaded.         *)
(***************************************************************************)
ThickKinds == {"init_thick_mode", "connect"}

NoThread == [pc |-> "idle", kind |-> None, calls |-> 0, returned |-> None]

InitThick ==
  /\ profile = low_load
  /\ entry = None
  /\ phase = "idle"
  /\ error = None
  /\ stop_flag = FALSE
  /\ now = 0
  /\ pc = <<>>
  /\ iter = <<>>
  /\ op_start = <<>>
  /\ conn = <<>>
  /\ worker_metrics = <<>>
  /\ fut = <<>>
  /\ collected = {}
  /\ metrics = <<>>
  /\ ret = <<>>
  /\ results = <<>>
  /\ summary = NoSummary
  /\ ops_per_conn = 0
  /\ threads = <<>>
  /\ reader = NoReader
  /\ reading = NoReading
  /\ exec = NoExec
  /\ \E n \in 1..MaxThreads : thick = [NoThick EXCEPT !.th = [t \in 0..(n - 1) |-> NoThread]]
  /\ runs = <<>>
  /\ cmp = NoCompare

thickOther == <<profile, entry, phase, error, stop_flag, now, workerVars, collected, metrics,
                ret, results, summary, ops_per_conn, threads, reader, reading, exec, runs, cmp>>

\* thread t calls init_thick_mode(), or connect() on a thick-mode connection
ThickCall(t, kind) ==
  /\ thick.th[t].pc \in {"idle", "done"}
  /\ thick.th[t].calls < MaxCalls
  /\ thick' = [thick EXCEPT !.th[t] = [pc |-> "test", kind |-> kind,
                                       calls |-> @.calls + 1, returned |-> None]]
  /\ UNCHANGED thickOther

\* if _thick_mode_initialized: return True   (init_thick_mode)
\* if not _thick_mode_initialized: ...       (connect)
ThickTest(t) ==
  /\ thick.th[t].pc = "test"
  /\ thick' = IF thick.initialized
              THEN [thick EXCEPT !.th[t].pc = "done",
                                 !.th[t].returned =
                                    IF thick.th[t].kind = "init_thick_mode" THEN TRUE ELSE None]
              ELSE [thick EXCEPT !.th[t].pc = "init"]
  /\ UNCHANGED thickOther

InitOutcomes == {"ok", "raise"}

\* oracledb.init_oracle_client(...) returns, or raises: init_thick_mode()
\* returns False, connect() falls back to thin mode
ThickInitClient(t, outcome) ==
  /\ thick.th[t].pc = "init"
  /\ thick' = IF outcome = "ok"
              THEN [thick EXCEPT !.invoked = @ + 1, !.th[t].pc = "set"]
              ELSE [thick EXCEPT !.th[t].pc = "done",
                                 !.th[t].returned =
                                    IF thick.th[t].kind = "init_thick_mode" THEN FALSE ELSE None]
  /\ UNCHANGED thickOther

\* _thick_mode_initialized = True; return True
ThickSet(t) ==
  /\ thick.th[t].pc = "set"
  /\ thick' = [thick EXCEPT !.initialized = TRUE, !.th[t].pc = "done",
                            !.th[t].returned =
                               IF thick.th[t].kind = "init_thick_mode" THEN TRUE ELSE None]
  /\ UNCHANGED thickOther

NextThick ==
  \E t \in DOMAIN thick.th :
    \/ \E kind \in ThickKinds : ThickCall(t, kind)
    \/ ThickTest(t)
    \/ \E outcome \in InitOutcomes : ThickInitClient(t, outcome)
    \/ ThickSet(t)

SpecThick == InitThick /\ [][NextThick]_vars

\* C26: thick-mode initialization is init-once per process: in every
\* interleaving of init_thick_mode() and thick-mode connect() calls,
\* oracledb.init_oracle_client is invoked successfully at most once (once the
\* flag is set no call invokes it again).
C26_InitOnce == thick.invoked <= 1


(***************************************************************************)
(* A run in which every call terminates and every thread is scheduled:     *)
(* a connect(), an operation, a sleep, a disconnect() that has begun       *)
(* returns, a finished future is taken by the as_completed loop, and the   *)
(* with block is left once every future has been taken.                    *)
(***************************************************************************)
RunStep ==
  \/ \E w \in Workers, o \in ConnectOutcomes : Connect(w, o)
  \/ \E w \in Workers : Check(w)
  \/ \E w \in Workers : OpReturn(w)
  \/ \E w \in Workers : OpRaise(w)
  \/ \E w \in Workers : Sleep(w)
  \/ \E w \in Workers, o \in DisconnectOutcomes : Disconnect(w, o)
  \/ \E w \in Workers : Collect(w)
  \/ Return

SpecTerminates == InitOrder /\ [][Next]_vars /\ WF_vars(RunStep)

\* C27: if every connect() and every operation call terminates,
\* test_concurrent_operations terminates: a run that has begun returns; no
\* worker begins more than operations_per_connection iterations; and the
\* merged list is returned only after every worker has completed, never while
\* one is still connecting, executing an operation, sleeping or disconnecting.
C27_TerminatesAfterAllWorkers ==
  /\ (phase = "running") ~> (phase = "returned")
  /\ [](\A w \in Workers : iter[w] <= ops_per_conn)
  /\ [](phase = "returned" => \A w \in Workers : pc[w] = "done")

\* a direct call returned after both workers ran both their iterations
C27_Witness ==
  /\ phase = "returned"
  /\ entry = "test_concurrent_operations"
  /\ \A w \in Workers : pc[w] = "done" /\ iter[w] = ops_per_conn
  /\ ops_per_conn = 2
  /\ Len(ret) = 4


(***************************************************************************)
(* One client given several run_*_test calls, one after the other.  The    *)
(* client keeps self.results and self._stop_flag from __init__ on; the     *)
(* locals of test_concurrent_operations (the pool, the workers, their      *)
(* connections and lists) are new in every call.                           *)
(***************************************************************************)
\* the run_*_test calls a client is given, numbered in order
CallNumbers == {1, 2}

RunsProfile ==
  [name |-> "Low Load", concurrent_connections |-> 2, operations_per_second |-> 2,
   data_size_kb |-> DataSizeKb, think_time_ms |-> 0, duration_seconds |-> 1]

InitRuns ==
  /\ profile = RunsProfile
  /\ entry = None
  /\ phase = "idle"
  /\ error = None
  /\ stop_flag = FALSE
  /\ now = 0
  /\ pc = <<>>
  /\ iter = <<>>
  /\ op_start = <<>>
  /\ conn = <<>>
  /\ worker_metrics = <<>>
  /\ fut = <<>>
  /\ collected = {}
  /\ metrics = <<>>
  /\ ret = <<>>
  /\ results = <<>>
  /\ summary = NoSummary
  /\ ops_per_conn = 0
  /\ threads = <<>>
  /\ reader = NoReader
  /\ reading = NoReading
  /\ exec = NoExec
  /\ thick = NoThick
  /\ runs = <<>>
  /\ cmp = NoCompare

\* run_*_test has returned self.results and the caller is about to call the
\* client again: the locals of the call that returned are gone
NextCall ==
  /\ phase = "returned"
  /\ Len(runs) + 2 \in CallNumbers
  /\ runs' = Append(runs, ret)
  /\ phase' = "idle"
  /\ entry' = None
  /\ pc' = <<>>
  /\ iter' = <<>>
  /\ op_start' = <<>>
  /\ conn' = <<>>
  /\ worker_metrics' = <<>>
  /\ fut' = <<>>
  /\ collected' = {}
  /\ metrics' = <<>>
  /\ ret' = <<>>
  /\ ops_per_conn' = 0
  /\ UNCHANGED <<profile, error, stop_flag, now, results, summary, threads, reader,
                 reading, exec, thick, cmp>>

NextRuns ==
  \/ \E e \in RunEntries : StartRun(e)
  \/ \E w \in Workers, o \in ConnectOutcomes : Connect(w, o)
  \/ \E w \in Workers : Check(w)
  \/ \E w \in Workers : OpReturn(w)
  \/ \E w \in Workers, o \in DisconnectOutcomes : Disconnect(w, o)
  \/ \E w \in Workers : Collect(w)
  \/ Return
  \/ Stop
  \/ NextCall

SpecRuns == InitRuns /\ [][NextRuns]_vars


\* no worker of the current call has begun an operation
NoOperationBegun ==
  \A w \in Workers : iter[w] = 0 /\ worker_metrics[w] = <<>> /\ pc[w] # "op"

\* every worker of the call that returned called connect(), and disconnect()
\* was called on every connection whose connect() returned True
OpenedAndClosed ==
  \A w \in Workers :
    /\ pc[w] = "done"
    /\ conn[w].cursor # None => conn[w].disconnect_called

RECURSIVE Flatten(_)
Flatten(rs) == IF rs = <<>> THEN <<>> ELSE Flatten(SubSeq(rs, 1, Len(rs) - 1)) \o rs[Len(rs)]

\* C30: successive run_*_test calls on one client accumulate into one
\* TestResults: after the k-th call has returned, client.results.metrics is
\* the concatenation of what the k runs returned, in order, and
\* total_operations is the sum over the runs, not the size of the last run.
C30_RunsAccumulate ==
  /\ phase \in {"idle", "running"} => results = Flatten(runs)
  /\ phase = "returned" =>
       /\ results = Flatten(runs) \o ret
       /\ results # <<>> =>
            get_summary(profile.name, results)["total_operations"] = Len(Flatten(runs)) + Len(ret)

\* the second call returned two records after the first had returned two
C30_Witness ==
  /\ phase = "returned"
  /\ Len(runs) = 1
  /\ Len(runs[1]) = 2
  /\ Len(ret) = 2
  /\ Len(results) = 4
  /\ runs[1] # ret


\* the records of worker w in the list ms, in order
RecordsOf(w, ms) == SelectSeq(ms, LAMBDA m : m.connection_id = ConnId(w))

\* worker v connected, did not raise and was not stopped
Undisturbed(v) == Connected(v) /\ fut[v] = "result" /\ ~stop_flag

\* C29: if the operation callback raises inside a worker, the exception does
\* not propagate out of test_concurrent_operations, that worker's connection
\* is disconnected, and every other worker runs all its iterations and has
\* all its records returned.
C29_RaisingWorkerIsContained ==
  (entry = "test_concurrent_operations" /\ phase \in {"returned", "raised"}) =>
    \A w \in Workers : fut[w] = "exception" =>
      /\ phase = "returned" /\ error = None
      /\ conn[w].connection = "closed"
      /\ \A v \in Workers \ {w} : Undisturbed(v) =>
           /\ iter[v] = ops_per_conn
           /\ Len(worker_metrics[v]) = ops_per_conn
           /\ RecordsOf(v, ret) = worker_metrics[v]


\* worker w begins an operation in this step
BeginsOp(w) == pc[w] # "op" /\ pc'[w] = "op"

\* C31: within one worker operations execute strictly sequentially: an
\* operation begins only from the loop header, when every earlier operation of
\* the worker has returned and its record is in the worker's list, and, when
\* think_time_ms > 0, the worker passes through one think-time pause between
\* the return of an operation and the loop header; in the returned list the
\* records of one worker appear in the order the worker executed them.
C31_SequentialWithinWorker ==
  /\ [](\A w \in Workers :
          /\ pc[w] = "op" => Len(worker_metrics[w]) = iter[w] - 1
          /\ pc[w] \in {"sleep", "check"} => Len(worker_metrics[w]) = iter[w])
  /\ [][\A w \in DOMAIN pc :
          (w \in DOMAIN pc') =>
            /\ BeginsOp(w) => pc[w] = "check"
            /\ (pc[w] = "op" /\ pc'[w] # "op" /\ fut'[w] # "exception") =>
                 /\ worker_metrics'[w] = Append(worker_metrics[w],
                                                worker_metrics'[w][Len(worker_metrics'[w])])
                 /\ pc'[w] = IF profile.think_time_ms > 0 THEN "sleep" ELSE "check"
            /\ (pc[w] = "sleep" /\ pc'[w] # "sleep") => pc'[w] = "check"]_vars
  /\ [](phase = "returned" =>
          \A w \in Workers : fut[w] = "result" => RecordsOf(w, ret) = worker_metrics[w])

\* a direct call with think time returned: worker 0 executed two operations
\* that began at different times, and its records are in that order in ret
C31_Witness ==
  /\ phase = "returned"
  /\ entry = "test_concurrent_operations"
  /\ profile.think_time_ms > 0
  /\ Len(ret) = 4
  /\ Len(worker_metrics[0]) = 2
  /\ worker_metrics[0][1].start_time < worker_metrics[0][2].start_time
  /\ RecordsOf(0, ret) = worker_metrics[0]


(***************************************************************************)
(* A run of a client created with use_thick_mode=True in a process where   *)
(* thick mode has not been initialized: connect() of each worker begins    *)
(* with the test of the module global _thick_mode_initialized, the call    *)
(* of oracledb.init_oracle_client and the assignment of the global, and    *)
(* then opens the session and the cursor.                                  *)
(***************************************************************************)
InitThickRun ==
  /\ profile = RunsProfile
  /\ entry = None
  /\ phase = "idle"
  /\ error = None
  /\ stop_flag = FALSE
  /\ now = 0
  /\ pc = <<>>
  /\ iter = <<>>
  /\ op_start = <<>>
  /\ conn = <<>>
  /\ worker_metrics = <<>>
  /\ fut = <<>>
  /\ collected = {}
  /\ metrics = <<>>
  /\ ret = <<>>
  /\ results = <<>>
  /\ summary = NoSummary
  /\ ops_per_conn = 0
  /\ threads = <<>>
  /\ reader = NoReader
  /\ reading = NoReading
  /\ exec = NoExec
  /\ thick = [NoThick EXCEPT
                !.th = [t \in 0..(RunsProfile.concurrent_connections - 1) |-> NoThread]]
  /\ runs = <<>>
  /\ cmp = NoCompare

\* worker w enters connect(): if self.use_thick_mode: ...
ConnectEnter(w) ==
  /\ phase = "running"
  /\ pc[w] = "connect"
  /\ thick.th[w].pc = "idle"
  /\ ThickCall(w, "connect")

\* a step of the thick-mode part of connect() of worker w
ConnectThickStep(w) ==
  /\ phase = "running"
  /\ pc[w] = "connect"
  /\ \/ ThickTest(w)
     \/ \E outcome \in InitOutcomes : ThickInitClient(w, outcome)
     \/ ThickSet(w)

\* the rest of connect() of worker w: the session and the cursor
ConnectSession(w, outcome) ==
  /\ thick.th[w].pc = "done"
  /\ Connect(w, outcome)

NextThickRun ==
  \/ \E e \in Entries : StartRun(e)
  \/ \E w \in Workers : ConnectEnter(w)
  \/ \E w \in Workers : ConnectThickStep(w)
  \/ \E w \in Workers, o \in ConnectOutcomes : ConnectSession(w, o)
  \/ \E w \in Workers : Check(w)
  \/ \E w \in Workers : OpReturn(w)
  \/ \E w \in Workers : OpRaise(w)
  \/ \E w \in Workers, o \in DisconnectOutcomes : Disconnect(w, o)
  \/ \E w \in Workers : Collect(w)
  \/ Return
  \/ Stop

SpecThickRun == InitThickRun /\ [][NextThickRun]_vars


\* every worker has left worker() and its future has been taken
PoolJoined == collected = Workers /\ \A w \in Workers : pc[w] = "done"

\* a step changes state of worker w
WorkerStepOf(w) ==
  \/ pc'[w] # pc[w]
  \/ iter'[w] # iter[w]
  \/ conn'[w] # conn[w]
  \/ worker_metrics'[w] # worker_metrics[w]
  \/ thick'.th[w] # thick.th[w]

\* what every step of a run in progress keeps: client.results is written
\* only once the pool has been joined; the stop flag is written by no worker;
\* a worker writes its own list and connection only
RunFrame ==
  /\ results' # results => PoolJoined
  /\ stop_flag' # stop_flag => \A w \in Workers : ~WorkerStepOf(w)
  /\ \A w \in Workers : WorkerStepOf(w) =>
       /\ metrics' = metrics
       /\ \A v \in Workers \ {w} : ~WorkerStepOf(v)

Variants == <<"prepared", "direct">>

\* OracleTestConnection("prepared_test", ...), OracleTestConnection("direct_test", ...)
CompareConnId(v) == IF v = 1 THEN <<"prepared_test">> ELSE <<"direct_test">>

\* num_operations of a call
NumOperations == {1, 2}

\* client.results.metrics when the call begins: a fresh client, or one with
\* a record of an earlier run
EarlierResults == {<<>>, <<Metric(LargeRead, 0, 0, TRUE, None, DataSizeKb * 1024, ConnId(0))>>}

\* the client before the call: use_prepared_statements, results, stop flag
CompareInputs ==
  { [pc |-> "idle", v |-> 0, i |-> 0, num_operations |-> n, data_size_kb |-> DataSizeKb,
     use_prepared_statements |-> u, conn |-> <<NoConn, NoConn>>,
     connected |-> <<FALSE, FALSE>>, out |-> <<>>, before |-> None] :
      n \in NumOperations, u \in BOOLEAN }

InitCompare ==
  /\ profile = low_load
  /\ entry = None
  /\ phase = "idle"
  /\ error = None
  /\ stop_flag \in BOOLEAN
  /\ now = 0
  /\ pc = <<>>
  /\ iter = <<>>
  /\ op_start = <<>>
  /\ conn = <<>>
  /\ worker_metrics = <<>>
  /\ fut = <<>>
  /\ collected = {}
  /\ metrics = <<>>
  /\ ret = <<>>
  /\ results \in EarlierResults
  /\ summary = NoSummary
  /\ ops_per_conn = 0
  /\ threads = <<>>
  /\ reader = NoReader
  /\ reading = NoReading
  /\ exec = NoExec
  /\ thick = NoThick
  /\ runs = <<>>
  /\ cmp \in CompareInputs

compareOther == <<profile, entry, phase, error, now, workerVars, collected, metrics, ret,
                  summary, ops_per_conn, threads, reader, reading, exec, thick, runs>>

\* self.use_prepared_statements = True / False for variant v
UsePrepared(v) == v = 1

\* self.use_prepared_statements = ...; self.results = TestResults(...);
\* conn = OracleTestConnection(...)
CompareBegin(c, v) ==
  [c EXCEPT !.pc = "connect", !.v = v, !.i = 0,
            !.use_prepared_statements = UsePrepared(v)]

\* the call begins with the prepared variant
CompareCall ==
  /\ cmp.pc = "idle"
  /\ cmp' = [CompareBegin(cmp, 1) EXCEPT
               !.before = [use_prepared_statements |-> cmp.use_prepared_statements,
                           results |-> results, stop_flag |-> stop_flag]]
  /\ results' = <<>>
  /\ UNCHANGED <<stop_flag, compareOther>>

\* if conn.connect():
CompareConnect(outcome) ==
  /\ cmp.pc = "connect"
  /\ cmp' = [cmp EXCEPT !.conn[cmp.v] = connect(@, outcome),
                        !.connected[cmp.v] = ConnectReturns(outcome),
                        !.pc = IF ConnectReturns(outcome) THEN "loop" ELSE "store"]
  /\ UNCHANGED <<results, stop_flag, compareOther>>


\* a loop that ends when the client has been stopped
CompareProceedsUntilStop(i, n, stopped) == i < n /\ ~stopped

\* for i in range(num_operations): the stop flag is not looked at
CompareProceeds(i, n, stopped) == i < n

\* metric = self.test_large_write(conn, data_size_kb); self.results.add_metric(metric)
CompareOp ==
  /\ cmp.pc = "loop"
  /\ CompareProceeds(cmp.i, cmp.num_operations, stop_flag)
  /\ \E m \in test_large_write(CompareConnId(cmp.v), now, now, cmp.data_size_kb) :
        results' = add_metric(results, m)
  /\ cmp' = [cmp EXCEPT !.i = @ + 1]
  /\ UNCHANGED <<stop_flag, compareOther>>

\* the loop is left; finally: conn.disconnect()
CompareDisconnect(outcome) ==
  /\ cmp.pc = "loop"
  /\ ~CompareProceeds(cmp.i, cmp.num_operations, stop_flag)
  /\ cmp' = [cmp EXCEPT !.conn[cmp.v] = disconnect(@, outcome), !.pc = "store"]
  /\ UNCHANGED <<results, stop_flag, compareOther>>

\* results['prepared'] = self.results, and the direct variant begins;
\* results['direct'] = self.results; self.use_prepared_statements = True;
\* return results
CompareStore ==
  /\ cmp.pc = "store"
  /\ LET stored == [cmp EXCEPT !.out = @ @@ (Variants[cmp.v] :> results)] IN
     IF cmp.v = 1
     THEN /\ cmp' = CompareBegin(stored, 2)
          /\ results' = <<>>
     ELSE /\ cmp' = [stored EXCEPT !.use_prepared_statements = TRUE, !.pc = "returned"]
          /\ results' = results
  /\ UNCHANGED <<stop_flag, compareOther>>

NextCompare ==
  \/ CompareCall
  \/ \E o \in ConnectOutcomes : CompareConnect(o)
  \/ CompareOp
  \/ \E o \in DisconnectOutcomes : CompareDisconnect(o)
  \/ CompareStore
  \/ Stop

SpecCompare == InitCompare /\ [][NextCompare]_vars

\* C33: compare_prepared_vs_direct returns two distinct result sets: each
\* holds exactly num_operations records when its connection succeeds and
\* none when it fails, every prepared operation has completed and the
\* prepared connection is closed before the first direct operation starts,
\* and neither set contains a record of the other.
C33_TwoSeparateRuns ==
  /\ cmp.pc = "returned" =>
       /\ DOMAIN cmp.out = {"prepared", "direct"}
       /\ \A v \in {1, 2} :
            /\ Len(cmp.out[Variants[v]]) =
                 IF cmp.connected[v] THEN cmp.num_operations ELSE 0
            /\ \A k \in 1..Len(cmp.out[Variants[v]]) :
                 cmp.out[Variants[v]][k].connection_id = CompareConnId(v)
  /\ (cmp.pc = "loop" /\ cmp.v = 2) =>
       /\ "prepared" \in DOMAIN cmp.out
       /\ Len(cmp.out["prepared"]) = IF cmp.connected[1] THEN cmp.num_operations ELSE 0
       /\ cmp.connected[1] => cmp.conn[1].connection = "closed"


AllFailed == results # <<>> /\ \A i \in 1..Len(results) : ~results[i].success

\* C36: when the record set is non-empty and every record has success = false,
\* get_summary() returns a summary with total_operations = failed_operations =
\* N, successful_operations = 0, success_rate = 0 and
\* total_data_transferred_mb = 0, and with no duration, throughput, read_ or
\* write_ key.
C36_AllFailedSummary ==
  (summary # NoSummary /\ AllFailed) =>
    /\ DOMAIN summary = {"load_profile", "total_operations", "successful_operations",
                         "failed_operations", "success_rate", "total_data_transferred_mb"}
    /\ summary["total_operations"] = Len(results)
    /\ summary["failed_operations"] = Len(results)
    /\ summary["successful_operations"] = 0
    /\ summary["success_rate"] = RatInt(0)
    /\ summary["total_data_transferred_mb"] = RatInt(0)

\* the summary of three failed records, reads and writes that carried a payload
C36_Witness ==
  /\ summary # NoSummary
  /\ AllFailed
  /\ Len(results) = 3
  /\ \E i \in 1..3 : results[i].operation_type = LargeRead
  /\ \E i \in 1..3 : results[i].operation_type = LargeWrite /\ results[i].data_size_bytes > 0
  /\ summary["failed_operations"] = 3

=============================================================================
